---- MODULE Spec2Model ----
(***************************************************************************)
(* A model of the virtual tree of vtree: TreeItem (tree/tree_item.rs),     *)
(* PathVector and TreeModel (tree/core.rs), the command loop of a session  *)
(* (vtui/session.rs) and the History of its lines (vtui/history.rs).       *)
(*                                                                         *)
(* A Rust String is a sequence of one-character strings, so that split,    *)
(* replace, starts_with and parse are computed and not assumed.            *)
(* Option<T> is a sequence of length 0 (None) or 1 (Some).                 *)
(* Result<T> is a record [tag, val] with tag "Ok", "Err" or "Panic"; a     *)
(* panic (a failed unwrap or assert!) ends the process.                    *)
(***************************************************************************)
EXTENDS Integers, Sequences, FiniteSets, TLC

VARIABLES tree, disk, last, doc, history

vars == <<tree, disk, last, doc, history>>

\* ---------------------------------------------------------------------
\*   bounds of the model
\* ---------------------------------------------------------------------

\* Largest number of nodes (the root excluded) a tree may grow to.
MaxNodes == 3

\* Largest number of files on the disk.
MaxFiles == 2

\* Largest `level` handed to move_backward.
MaxLevel == 3

\* Largest length of an exhaustively enumerated path string.
MaxStrLen == 4

\* Largest length of an enumerated directory name.
MaxNameLen == 3

\* ---------------------------------------------------------------------
\*   the record of the last call
\* ---------------------------------------------------------------------

\* No call is in progress: the caller has taken the last result.
Idle == [op |-> "idle", arg |-> <<>>, r |-> [tag |-> "Ok", val |-> <<>>], from |-> <<>>]

\* ---------------------------------------------------------------------
\*   Option and Result
\* ---------------------------------------------------------------------

None == <<>>

Some(v) == <<v>>

Ok(v) == [tag |-> "Ok", val |-> v]

Err(kind) == [tag |-> "Err", val |-> kind]

Panic(what) == [tag |-> "Panic", val |-> what]

IsOk(r) == r.tag = "Ok"

\* The value of type ().
Unit == <<>>

\* ---------------------------------------------------------------------
\*   strings
\* ---------------------------------------------------------------------

\* str::replace for a one-character pattern.
replace(s, from, to) == [i \in 1..Len(s) |-> IF s[i] = from THEN to ELSE s[i]]

\* str::split for a one-character separator: "" gives [""], "a/" gives ["a", ""].
RECURSIVE split_from(_, _, _, _)
split_from(s, sep, i, cur) ==
    IF i > Len(s) THEN <<cur>>
    ELSE IF s[i] = sep THEN <<cur>> \o split_from(s, sep, i + 1, <<>>)
    ELSE split_from(s, sep, i + 1, Append(cur, s[i]))

split(s, sep) == split_from(s, sep, 1, <<>>)

\* str::starts_with
starts_with(s, pre) == Len(s) >= Len(pre) /\ SubSeq(s, 1, Len(pre)) = pre

\* Iterator::filter on a Vec.
RECURSIVE filter_out(_, _)
filter_out(v, dropped) ==
    IF v = <<>> THEN <<>>
    ELSE IF Head(v) \in dropped THEN filter_out(Tail(v), dropped)
    ELSE <<Head(v)>> \o filter_out(Tail(v), dropped)

\* [T]::join
RECURSIVE join(_, _)
join(v, sep) ==
    IF v = <<>> THEN <<>>
    ELSE IF Len(v) = 1 THEN v[1]
    ELSE v[1] \o sep \o join(Tail(v), sep)

\* The largest index <= i at which s holds c, 0 if there is none (str::rfind).
RECURSIVE rfind(_, _, _)
rfind(s, c, i) ==
    IF i = 0 THEN 0 ELSE IF s[i] = c THEN i ELSE rfind(s, c, i - 1)

Digits == <<"0", "1", "2", "3", "4", "5", "6", "7", "8", "9">>

IsDigit(c) == \E d \in 1..10 : Digits[d] = c

DigitVal(c) == (CHOOSE d \in 1..10 : Digits[d] = c) - 1

I32Max == 2147483647

\* The checked accumulation of i32::from_str: digits are added for a positive
\* number and subtracted for a negative one, and leaving the i32 range is an error.
RECURSIVE accumulate(_, _, _)
accumulate(s, acc, negative) ==
    IF s = <<>> THEN Ok(acc)
    ELSE LET d == DigitVal(Head(s))
             low == IF d = 0 THEN 0 - (I32Max \div 10)
                    ELSE 0 - ((I32Max - (d - 1)) \div 10)
         IN  IF negative
             THEN IF acc < low THEN Err(<<"ParseIntError">>)
                  ELSE accumulate(Tail(s), acc * 10 - d, negative)
             ELSE IF acc > (I32Max - d) \div 10 THEN Err(<<"ParseIntError">>)
                  ELSE accumulate(Tail(s), acc * 10 + d, negative)

\* str::parse::<i32>: an optional sign and at least one digit, within i32.
parse_i32(s) ==
    LET signed == Len(s) >= 1 /\ s[1] \in {"+", "-"}
        body == IF signed THEN Tail(s) ELSE s
    IN  IF body = <<>> \/ \E i \in 1..Len(body) : ~IsDigit(body[i])
        THEN Err(<<"ParseIntError">>)
        ELSE accumulate(body, 0, signed /\ s[1] = "-")

\* ---------------------------------------------------------------------
\*   real paths (std::path) and the disk
\* ---------------------------------------------------------------------

\* A PathBuf is a string. The disk is the set of the regular files that exist,
\* each named by the components the operating system resolves a path to from
\* the current directory.

\* The components of a path: "." and empty components name nothing.
components(p) == filter_out(split(p, "/"), {<<>>, <<".">>})

\* std::env::current_dir() of the process.
CurDir == <<"/", "w">>

\* The directory walk of the operating system: ".." names the parent.
RECURSIVE os_walk(_, _)
os_walk(at, comps) ==
    IF comps = <<>> THEN at
    ELSE IF Head(comps) = <<".", ".">>
         THEN os_walk(SubSeq(at, 1, Len(at) - 1), Tail(comps))
    ELSE os_walk(Append(at, Head(comps)), Tail(comps))

\* The file a path names: a relative path starts at the current directory.
canonical(p) ==
    IF starts_with(p, <<"/">>) THEN os_walk(<<>>, components(p))
    ELSE os_walk(components(CurDir), components(p))

\* Path::exists, the disk of the model holding regular files only.
path_exists(p, files) == canonical(p) \in files

\* Path::file_name
file_name(p) ==
    LET c == components(p)
    IN  IF c = <<>> \/ c[Len(c)] = <<".", ".">> THEN None ELSE Some(c[Len(c)])

\* Path::file_stem: the file name up to its last '.', a leading '.' excepted.
file_stem(p) ==
    LET f == file_name(p)
    IN  IF f = None THEN None
        ELSE LET d == rfind(f[1], ".", Len(f[1]))
             IN  IF d <= 1 THEN f ELSE Some(SubSeq(f[1], 1, d - 1))

\* Path::extension: the file name after its last '.', a leading '.' excepted.
extension(p) ==
    LET f == file_name(p)
    IN  IF f = None THEN None
        ELSE LET d == rfind(f[1], ".", Len(f[1]))
             IN  IF d <= 1 THEN None ELSE Some(SubSeq(f[1], d + 1, Len(f[1])))

\* Path::parent: the path without its last component.
parent(p) ==
    LET c == components(p)
        h == rfind(p, "/", Len(p))
    IN  IF c = <<>> THEN None
        ELSE IF h = 0 THEN Some(<<>>)
        ELSE IF h = 1 THEN Some(<<"/">>)
        ELSE Some(SubSeq(p, 1, h - 1))

\* Path::join: an absolute right-hand side replaces the left one.
path_join(p, name) ==
    IF starts_with(name, <<"/">>) \/ p = <<>> THEN name
    ELSE IF p[Len(p)] = "/" THEN p \o name
    ELSE p \o <<"/">> \o name

\* str::strip_prefix(..).unwrap_or(other)
strip_prefix_or(s, pre, other) ==
    IF starts_with(s, pre) THEN SubSeq(s, Len(pre) + 1, Len(s)) ELSE other

\* fn resolve_path; current_dir() succeeds.
resolve_path(path) ==
    IF starts_with(path, <<".">>) \/ starts_with(path, <<"/">>)
    THEN Ok(path_join(CurDir,
                      strip_prefix_or(strip_prefix_or(path, <<".">>, path), <<"/">>, path)))
    ELSE Ok(path)

\* Display of a count, as format!("{}", count) writes it.
RECURSIVE to_digits(_)
to_digits(n) ==
    IF n < 10 THEN <<Digits[n + 1]>>
    ELSE to_digits(n \div 10) \o <<Digits[(n % 10) + 1]>>

\* ---------------------------------------------------------------------
\*   TreeItem
\* ---------------------------------------------------------------------

\* struct TreeItem
TreeItem(name, children, desc, entity) ==
    [name |-> name, children |-> children, desc |-> desc, entity |-> entity]

\* TreeItem::new
new(name) == TreeItem(name, <<>>, None, None)

\* TreeItem::new_file
new_file(name, path) == TreeItem(name, <<>>, None, Some(path))

\* Path::is_file: the path currently exists as a regular file.
path_is_file(path, files) == canonical(path) \in files

\* is_file that does not look at the children.
is_file_ignores_children(self, files) ==
    IF self.entity = None THEN FALSE ELSE path_is_file(self.entity[1], files)

\* TreeItem::is_file
is_file(self, files) ==
    IF Len(self.children) > 0 THEN FALSE
    ELSE IF self.entity = None THEN FALSE
    ELSE path_is_file(self.entity[1], files)

\* TreeItem::is_dir
is_dir(self, files) == ~is_file(self, files)

\* TreeItem::children_names; the assert!(self.is_dir()) is checked by the caller.
children_names(self) == [i \in 1..Len(self.children) |-> self.children[i].name]

\* TreeItem::has
has(self, name) == \E i \in 1..Len(self.children) : self.children[i].name = name

\* TreeItem::has_dir
has_dir(self, name, files) ==
    \E i \in 1..Len(self.children) :
        self.children[i].name = name /\ is_dir(self.children[i], files)

\* split_nth_item: <<prefix, nth>>, nth = -1 when the suffix is no integer.
split_nth_item(name) ==
    LET h == rfind(name, "#", Len(name))
        right == IF h = 0 THEN name ELSE SubSeq(name, h + 1, Len(name))
        left == IF h = 0 THEN <<>> ELSE SubSeq(name, 1, h - 1)
        nth_result == parse_i32(right)
    IN  IF IsOk(nth_result) THEN <<left, nth_result.val>> ELSE <<name, 0 - 1>>

\* The loop of get_child for nth < 0: the first child named `name`.
RECURSIVE first_named(_, _, _)
first_named(self, name, i) ==
    IF i > Len(self.children) THEN Err(<<"NotFound">>)
    ELSE IF self.children[i].name = name THEN Ok(i)
    ELSE first_named(self, name, i + 1)

\* The loop of get_child for nth >= 0 that reports every miss as NotFound.
RECURSIVE nth_named_not_found(_, _, _, _, _)
nth_named_not_found(self, name, nth, i, count) ==
    IF i > Len(self.children) THEN Err(<<"NotFound">>)
    ELSE IF self.children[i].name = name
         THEN IF count = nth THEN Ok(i)
              ELSE nth_named_not_found(self, name, nth, i + 1, count + 1)
    ELSE nth_named_not_found(self, name, nth, i + 1, count)

\* The loop of get_child for nth >= 0: the child that makes count reach nth.
RECURSIVE nth_named(_, _, _, _, _)
nth_named(self, name, nth, i, count) ==
    IF i > Len(self.children)
    THEN IF count > 0 THEN Err(<<"Ambiguous", count>>) ELSE Err(<<"NotFound">>)
    ELSE IF self.children[i].name = name
         THEN IF count = nth THEN Ok(i)
              ELSE nth_named(self, name, nth, i + 1, count + 1)
    ELSE nth_named(self, name, nth, i + 1, count)

\* get_child that takes the first child of the name whatever the suffix.
get_child_first_match(self, name) == first_named(self, split_nth_item(name)[1], 1)

\* TreeItem::get_child and get_child_mut: Ok(index of the child) or an error.
get_child(self, name) ==
    LET sp == split_nth_item(name)
    IN  IF sp[2] < 0 THEN first_named(self, sp[1], 1)
        ELSE nth_named(self, sp[1], sp[2], 1, 0)

\* TreeItem::get_child_dir and get_child_dir_mut: Ok(index of the child) or an error.
RECURSIVE get_child_dir_from(_, _, _, _)
get_child_dir_from(self, name, files, i) ==
    IF i > Len(self.children) THEN Err(<<"NotFound">>)
    ELSE IF self.children[i].name = name /\ is_dir(self.children[i], files) THEN Ok(i)
    ELSE get_child_dir_from(self, name, files, i + 1)

get_child_dir(self, name, files) == get_child_dir_from(self, name, files, 1)

\* TreeItem::add_item, as add_alias and create_new_file call it.
add_item(self, item) == [self EXCEPT !.children = Append(@, item)]

\* TreeItem::add_new_child
add_new_child(self, name, path) == add_item(self, new_file(name, path))

\* const _INVALID
INVALID == {"\\", "/", "#", "|", "\"", "*", "?", "<", ">", ":"}

\* is_valid_item_name that looks at the first character only.
is_valid_item_name_first_char(name) == name = <<>> \/ name[1] \notin INVALID

\* is_valid_item_name
is_valid_item_name(name) == \A i \in 1..Len(name) : name[i] \notin INVALID

\* make_directory that any child of the name blocks, file or directory.
item_make_directory_any_child(self, name, files) ==
    IF has(self, name) THEN Err(<<"AlreadyExists">>)
    ELSE IF ~is_valid_item_name(name) THEN Err(<<"InvalidName">>)
    ELSE Ok([self EXCEPT !.children = Append(@, new(name))])

\* TreeItem::make_directory: Ok(the item with the new child) or an error.
item_make_directory(self, name, files) ==
    IF has_dir(self, name, files) THEN Err(<<"AlreadyExists">>)
    ELSE IF ~is_valid_item_name(name) THEN Err(<<"InvalidName">>)
    ELSE Ok([self EXCEPT !.children = Append(@, new(name))])

\* Vec::remove
remove_at(v, i) == SubSeq(v, 1, i - 1) \o SubSeq(v, i + 1, Len(v))

\* remove_child that removes the last child of the name instead of the first.
item_remove_child_last(self, name) ==
    LET named == {i \in 1..Len(self.children) : self.children[i].name = name}
    IN  IF named = {} THEN Err(<<"NotFound">>)
        ELSE Ok([self EXCEPT !.children =
                    remove_at(@, CHOOSE i \in named : \A j \in named : j <= i)])

\* TreeItem::remove_child: Ok(the item without the child) or an error.
RECURSIVE item_remove_child_from(_, _, _)
item_remove_child_from(self, name, index) ==
    IF index > Len(self.children) THEN Err(<<"NotFound">>)
    ELSE IF self.children[index].name = name
         THEN Ok([self EXCEPT !.children = remove_at(@, index)])
    ELSE item_remove_child_from(self, name, index + 1)

item_remove_child(self, name) == item_remove_child_from(self, name, 1)

\* ---------------------------------------------------------------------
\*   PathVector
\* ---------------------------------------------------------------------

\* PathVector::new
PathVector_new == <<>>

\* PathVector::join_str
join_str(path, name) == Append(path, name)

\* pops that removes one segment whatever the level.
pops_one(path, level) == SubSeq(path, 1, Len(path) - (IF Len(path) > 0 THEN 1 ELSE 0))

\* PathVector::pops
pops(path, level) ==
    LET npop == IF level < Len(path) THEN level ELSE Len(path)
    IN  SubSeq(path, 1, Len(path) - npop)

\* PathVector::to_string
to_string(path) == join(path, <<"/">>)

\* ---------------------------------------------------------------------
\*   TreeModel: self is [root |-> TreeItem, path |-> PathVector.path]
\* ---------------------------------------------------------------------

\* TreeModel::new
TreeModel_new(item) == [root |-> item, path |-> PathVector_new]

\* The item a sequence of child indices leads to from `item`.
RECURSIVE node_at(_, _)
node_at(item, idxs) ==
    IF idxs = <<>> THEN item ELSE node_at(item.children[Head(idxs)], Tail(idxs))

\* `item` with the item at `idxs` exchanged for `new_item`: a write through &mut.
RECURSIVE replace_at(_, _, _)
replace_at(item, idxs, new_item) ==
    IF idxs = <<>> THEN new_item
    ELSE [item EXCEPT !.children[Head(idxs)] = replace_at(@, Tail(idxs), new_item)]

\* The loop `for frg in ..: current = current.get_child(frg)?`, as indices.
RECURSIVE walk_children(_, _, _)
walk_children(item, segs, idxs) ==
    IF segs = <<>> THEN Ok(idxs)
    ELSE LET c == get_child(item, Head(segs))
         IN  IF IsOk(c)
             THEN walk_children(item.children[c.val], Tail(segs), Append(idxs, c.val))
             ELSE c

\* The loop `for frg in ..: current = current.get_child_dir(frg)?`, as indices.
RECURSIVE walk_dirs(_, _, _, _)
walk_dirs(item, segs, idxs, files) ==
    IF segs = <<>> THEN Ok(idxs)
    ELSE LET c == get_child_dir(item, Head(segs), files)
         IN  IF IsOk(c)
             THEN walk_dirs(item.children[c.val], Tail(segs), Append(idxs, c.val), files)
             ELSE c

\* TreeModel::current_item and current_item_mut
current_item(self, files) == walk_dirs(self.root, self.path, <<>>, files)

\* The loop of resolve_virtual_path with ".." skipped instead of popping.
RECURSIVE push_no_pop(_, _)
push_no_pop(curpath, pathvec) ==
    IF pathvec = <<>> THEN curpath
    ELSE IF Head(pathvec) = <<".", ".">> THEN push_no_pop(curpath, Tail(pathvec))
    ELSE push_no_pop(Append(curpath, Head(pathvec)), Tail(pathvec))

\* The loop of resolve_virtual_path: ".." pops, anything else is pushed.
RECURSIVE push_or_pop(_, _)
push_or_pop(curpath, pathvec) ==
    IF pathvec = <<>> THEN curpath
    ELSE IF Head(pathvec) = <<".", ".">>
         THEN push_or_pop(SubSeq(curpath, 1, Len(curpath) - 1), Tail(pathvec))
    ELSE push_or_pop(Append(curpath, Head(pathvec)), Tail(pathvec))

\* resolve_virtual_path that starts from the current path whatever the string.
resolve_virtual_path_ignores_home(self, path) ==
    LET pathvec == filter_out(split(replace(path, "\\", "/"), "/"),
                              {<<>>, <<".">>, <<"~">>})
    IN  Ok(push_or_pop(self.path, pathvec))

\* resolve_virtual_path that splits on "/" only.
resolve_virtual_path_keeps_backslash(self, path) ==
    LET curpath == IF ~starts_with(path, <<"~">>) THEN self.path ELSE <<>>
        pathvec == filter_out(split(path, "/"), {<<>>, <<".">>, <<"~">>})
    IN  Ok(push_or_pop(curpath, pathvec))

\* TreeModel::resolve_virtual_path
resolve_virtual_path(self, path) ==
    LET curpath == IF ~starts_with(path, <<"~">>) THEN self.path ELSE <<>>
        pathvec == filter_out(split(replace(path, "\\", "/"), "/"),
                              {<<>>, <<".">>, <<"~">>})
    IN  Ok(push_or_pop(curpath, pathvec))

\* TreeModel::check_path_exists
check_path_exists(self, path) == IsOk(walk_children(self.root, path, <<>>))

\* The loop of solve_path_vec.
RECURSIVE solve_loop(_, _)
solve_loop(cpath, pathvec) ==
    IF pathvec = <<>> THEN cpath
    ELSE IF Head(pathvec) = <<".", ".">> THEN solve_loop(pops(cpath, 1), Tail(pathvec))
    ELSE solve_loop(join_str(cpath, Head(pathvec)), Tail(pathvec))

\* TreeModel::solve_path_vec
solve_path_vec(self, pathvec) ==
    LET cpath == IF Len(pathvec) > 0 /\ pathvec[1] = <<"~">>
                 THEN PathVector_new ELSE self.path
    IN  solve_loop(cpath, pathvec)

\* TreeModel::item_at and item_at_mut
item_at(self, pathvec) ==
    walk_children(self.root, solve_path_vec(self, pathvec), <<>>)

\* TreeModel::dir_item_at and dir_item_at_mut
dir_item_at(self, pathvec, files) ==
    LET cpath == solve_path_vec(self, pathvec)
    IN  IF cpath = <<>> THEN Panic(<<"unwrap on None">>)
        ELSE LET front == walk_dirs(self.root, SubSeq(cpath, 1, Len(cpath) - 1), <<>>, files)
             IN  IF ~IsOk(front) THEN front
                 ELSE LET c == get_child_dir(node_at(self.root, front.val),
                                             cpath[Len(cpath)], files)
                      IN  IF ~IsOk(c) THEN c
                          ELSE IF ~is_dir(node_at(self.root, Append(front.val, c.val)), files)
                               THEN Panic(<<"assertion failed">>)
                          ELSE Ok(Append(front.val, c.val))

\* TreeModel::get_item
get_item(self, path) ==
    LET pathvec == resolve_virtual_path(self, path)
    IN  IF ~IsOk(pathvec) THEN pathvec ELSE item_at(self, pathvec.val)

\* TreeModel::pwd
pwd(self) == to_string(self.path)

\* ---------------------------------------------------------------------
\*   TreeModel operations: each gives [r |-> Result, self |-> the model after
\*   the call, files |-> the disk after the call]
\* ---------------------------------------------------------------------

Out(r, self, files) == [r |-> r, self |-> self, files |-> files]

\* move_forward with the path committed before it is validated.
move_forward_commits_first(self, name, files) ==
    LET path == join_str(self.path, name)
        checked == dir_item_at(self, path, files)
    IN  IF ~IsOk(checked) THEN Out(checked, [self EXCEPT !.path = path], files)
        ELSE Out(Ok(Unit), [self EXCEPT !.path = path], files)

\* TreeModel::move_forward
move_forward(self, name, files) ==
    LET path == join_str(self.path, name)
        checked == dir_item_at(self, path, files)
    IN  IF ~IsOk(checked) THEN Out(checked, self, files)
        ELSE Out(Ok(Unit), [self EXCEPT !.path = path], files)

\* move_backward that stays where it is.
move_backward_stays(self, level, files) == Out(Ok(Unit), self, files)

\* TreeModel::move_backward
move_backward(self, level, files) ==
    Out(Ok(Unit), [self EXCEPT !.path = pops(@, level)], files)

\* TreeModel::move_to_home
move_to_home(self, files) == Out(Ok(Unit), [self EXCEPT !.path = PathVector_new], files)

\* The loop of move_by_string going on with the segments after one that
\* failed.
RECURSIVE move_loop_goes_on(_, _, _)
move_loop_goes_on(self, segs, files) ==
    IF segs = <<>> THEN Out(Ok(Unit), self, files)
    ELSE IF Head(segs) = <<>> THEN move_loop_goes_on(self, Tail(segs), files)
    ELSE LET moved == IF Head(segs) = <<".", ".">> THEN move_backward(self, 1, files)
                      ELSE move_forward(self, Head(segs), files)
         IN  IF ~IsOk(moved.r)
             THEN [move_loop_goes_on(self, Tail(segs), files) EXCEPT !.r = moved.r]
             ELSE move_loop_goes_on(moved.self, Tail(segs), files)

\* The loop of move_by_string over path.split("/").
RECURSIVE move_loop(_, _, _)
move_loop(self, segs, files) ==
    IF segs = <<>> THEN Out(Ok(Unit), self, files)
    ELSE IF Head(segs) = <<>> THEN move_loop(self, Tail(segs), files)
    ELSE LET moved == IF Head(segs) = <<".", ".">> THEN move_backward(self, 1, files)
                      ELSE move_forward(self, Head(segs), files)
         IN  IF ~IsOk(moved.r) THEN moved ELSE move_loop(moved.self, Tail(segs), files)

\* TreeModel::move_by_string
move_by_string(self, path, files) == move_loop(self, split(path, "/"), files)

\* TreeModel::read_file; the content of a file is not modelled.
read_file(self, path, files) ==
    LET pathvec == resolve_virtual_path(self, path)
        found == item_at(self, pathvec.val)
    IN  IF ~IsOk(found) THEN found
        ELSE LET item == node_at(self.root, found.val)
             IN  IF is_file(item, files)
                 THEN IF path_exists(resolve_path(item.entity[1]).val, files)
                      THEN Ok(<<"contents", canonical(resolve_path(item.entity[1]).val)>>)
                      ELSE Err(<<"Io">>)
                 ELSE Err(<<"NotAFile">>)

\* open_file that asks is_file as read_file does.
open_file_requires_file(self, path, files, that_ok) ==
    LET pathvec == resolve_virtual_path(self, path)
        found == item_at(self, pathvec.val)
    IN  IF ~IsOk(found) THEN found
        ELSE LET item == node_at(self.root, found.val)
             IN  IF ~is_file(item, files) THEN Err(<<"NotAFile">>)
                 ELSE IF that_ok
                      THEN Ok(<<"opened", canonical(resolve_path(item.entity[1]).val)>>)
                      ELSE Err(<<"OpenError", canonical(resolve_path(item.entity[1]).val)>>)

\* TreeModel::open_file; that_ok says whether the default application of the
\* operating system reports success. Both answers of open::that name the file
\* it was handed.
open_file(self, path, files, that_ok) ==
    LET pathvec == resolve_virtual_path(self, path)
        found == item_at(self, pathvec.val)
    IN  IF ~IsOk(found) THEN found
        ELSE LET item == node_at(self.root, found.val)
             IN  IF item.entity = None THEN Err(<<"NoEntity">>)
                 ELSE IF that_ok
                      THEN Ok(<<"opened", canonical(resolve_path(item.entity[1]).val)>>)
                      ELSE Err(<<"OpenError", canonical(resolve_path(item.entity[1]).val)>>)

\* make_directory that enters the directory it has made.
make_directory_enters(self, path, files) ==
    LET pathvec == resolve_virtual_path(self, path).val
    IN  IF pathvec = <<>> THEN Out(Err(<<"Unresolved">>), self, files)
        ELSE LET file_name_ == pathvec[Len(pathvec)]
                 at == dir_item_at(self, SubSeq(pathvec, 1, Len(pathvec) - 1), files)
                 item == IF at.tag = "Err" THEN current_item(self, files) ELSE at
             IN  IF ~IsOk(item) THEN Out(item, self, files)
                 ELSE LET made == item_make_directory(node_at(self.root, item.val),
                                                      file_name_, files)
                      IN  IF ~IsOk(made) THEN Out(made, self, files)
                          ELSE Out(Ok(Unit),
                                   [root |-> replace_at(self.root, item.val, made.val),
                                    path |-> pathvec],
                                   files)

\* TreeModel::make_directory
make_directory(self, path, files) ==
    LET pathvec == resolve_virtual_path(self, path).val
    IN  IF pathvec = <<>> THEN Out(Err(<<"Unresolved">>), self, files)
        ELSE LET file_name_ == pathvec[Len(pathvec)]
                 at == dir_item_at(self, SubSeq(pathvec, 1, Len(pathvec) - 1), files)
                 item == IF at.tag = "Err" THEN current_item(self, files) ELSE at
             IN  IF ~IsOk(item) THEN Out(item, self, files)
                 ELSE LET made == item_make_directory(node_at(self.root, item.val),
                                                      file_name_, files)
                      IN  IF ~IsOk(made) THEN Out(made, self, files)
                          ELSE Out(Ok(Unit),
                                   [self EXCEPT !.root = replace_at(@, item.val, made.val)],
                                   files)

\* TreeModel::remove_child
remove_child(self, path, files) ==
    LET pathvec == resolve_virtual_path(self, path).val
    IN  IF pathvec = <<>> THEN Out(Err(<<"CannotRemoveRoot">>), self, files)
        ELSE LET file_name_ == pathvec[Len(pathvec)]
                 item == dir_item_at(self, SubSeq(pathvec, 1, Len(pathvec) - 1), files)
             IN  IF ~IsOk(item) THEN Out(item, self, files)
                 ELSE LET removed == item_remove_child(node_at(self.root, item.val),
                                                       file_name_)
                      IN  IF ~IsOk(removed) THEN Out(removed, self, files)
                          ELSE Out(Ok(Unit),
                                   [self EXCEPT !.root = replace_at(@, item.val, removed.val)],
                                   files)

\* TreeModel::ls_simple; `path` is an Option<String>.
ls_simple(self, path, files) ==
    LET path_ == IF path = None THEN <<".">> ELSE path[1]
        pathvec == resolve_virtual_path(self, path_).val
        item == dir_item_at(self, pathvec, files)
    IN  IF ~IsOk(item) THEN item
        ELSE IF ~is_dir(node_at(self.root, item.val), files)
             THEN Panic(<<"assertion failed">>)
        ELSE Ok(join(children_names(node_at(self.root, item.val)), <<" ">>))

NoDescription ==
    <<"<", "n", "o", " ", "d", "e", "s", "c", "r", "i", "p", "t", "i", "o", "n", ">">>

\* The longest name of a list of names.
RECURSIVE longest(_, _)
longest(names, max_len) ==
    IF names = <<>> THEN max_len
    ELSE longest(Tail(names), IF Len(Head(names)) > max_len THEN Len(Head(names)) ELSE max_len)

\* format!("{:>width$} {}", name, desc, width = max_len)
format_pair(name, desc, width) ==
    [i \in 1..(IF width > Len(name) THEN width - Len(name) ELSE 0) |-> " "]
        \o name \o <<" ">> \o desc

\* TreeModel::ls_detailed
ls_detailed(self, path, files) ==
    LET path_ == IF path = None THEN <<".">> ELSE path[1]
        pathvec == resolve_virtual_path(self, path_).val
        item == dir_item_at(self, pathvec, files)
    IN  IF ~IsOk(item) THEN item
        ELSE LET children == node_at(self.root, item.val).children
                 name_vec == [i \in 1..Len(children) |-> children[i].name]
                 desc_vec == [i \in 1..Len(children) |->
                                 IF children[i].desc = None THEN NoDescription
                                 ELSE children[i].desc[1]]
                 max_len == longest(name_vec, 0)
             IN  Ok(join([i \in 1..Len(children) |->
                             format_pair(name_vec[i], desc_vec[i], max_len)], <<"\n">>))

\* add_alias that stores the absolute path of the file instead of the path it
\* was given.
add_alias_stores_absolute(self, path, filepath, files) ==
    IF ~path_exists(filepath, files) THEN Out(Err(<<"DoesNotExist">>), self, files)
    ELSE LET pathvec == IF path = None THEN self.path
                        ELSE resolve_virtual_path(self, path[1]).val
         IN  IF path # None /\ pathvec = <<>>
             THEN Out(Panic(<<"unwrap on None">>), self, files)
             ELSE IF path = None /\ file_name(filepath) = None
             THEN Out(Panic(<<"unwrap on None">>), self, files)
             ELSE LET dirvec == IF path = None THEN pathvec
                                ELSE SubSeq(pathvec, 1, Len(pathvec) - 1)
                      filename == IF path = None THEN file_name(filepath)[1]
                                  ELSE pathvec[Len(pathvec)]
                      item == walk_children(self.root, solve_path_vec(self, dirvec), <<>>)
                  IN  IF ~IsOk(item) THEN Out(item, self, files)
                      ELSE Out(Ok(Unit),
                               [self EXCEPT !.root =
                                   replace_at(@, item.val,
                                       add_new_child(node_at(self.root, item.val), filename,
                                                     resolve_path(filepath).val))],
                               files)

\* TreeModel::add_alias; `path` is an Option<String>. The two-argument add_item
\* it calls is TreeItem::add_new_child.
add_alias(self, path, filepath, files) ==
    IF ~path_exists(filepath, files) THEN Out(Err(<<"DoesNotExist">>), self, files)
    ELSE LET pathvec == IF path = None THEN self.path
                        ELSE resolve_virtual_path(self, path[1]).val
         IN  IF path # None /\ pathvec = <<>>
             THEN Out(Panic(<<"unwrap on None">>), self, files)
             ELSE IF path = None /\ file_name(filepath) = None
             THEN Out(Panic(<<"unwrap on None">>), self, files)
             ELSE LET dirvec == IF path = None THEN pathvec
                                ELSE SubSeq(pathvec, 1, Len(pathvec) - 1)
                      filename == IF path = None THEN file_name(filepath)[1]
                                  ELSE pathvec[Len(pathvec)]
                      item == item_at(self, dirvec)
                  IN  IF ~IsOk(item) THEN Out(item, self, files)
                      ELSE Out(Ok(Unit),
                               [self EXCEPT !.root =
                                   replace_at(@, item.val,
                                       add_new_child(node_at(self.root, item.val),
                                                     filename, filepath))],
                               files)

\* The candidate taken without a look at the disk.
unique_path_no_search(path, stem, ext, count, files) == Ok(path)

\* The loop of create_new_file that searches for an unused file name.
RECURSIVE unique_path(_, _, _, _, _)
unique_path(path, stem, ext, count, files) ==
    IF ~path_exists(path, files) THEN Ok(path)
    ELSE IF parent(path) = None THEN Err(<<"AlreadyExists">>)
    ELSE unique_path(path_join(parent(path)[1], stem \o <<"-">> \o to_digits(count) \o ext),
                     stem, ext, count + 1, files)

\* create_new_file that creates the backing file before it looks at the tree.
create_new_file_creates_first(self, path, candidate, files, io_ok) ==
    LET pathvec == resolve_virtual_path(self, path).val
    IN  IF file_stem(candidate) = None THEN Out(Panic(<<"unwrap on None">>), self, files)
        ELSE LET ext == IF extension(candidate) = None THEN <<>>
                        ELSE <<".">> \o extension(candidate)[1]
                 vpath == unique_path(candidate, file_stem(candidate)[1], ext, 0, files)
             IN  IF ~IsOk(vpath) THEN Out(vpath, self, files)
                 ELSE IF ~io_ok THEN Out(Err(<<"Io">>), self, files)
                 ELSE LET created == files \cup {canonical(vpath.val)}
                          item == item_at(self, SubSeq(pathvec, 1, Len(pathvec) - 1))
                      IN  IF check_path_exists(self, pathvec)
                          THEN Out(Err(<<"AlreadyExists">>), self, created)
                          ELSE IF ~IsOk(item) THEN Out(item, self, created)
                          ELSE Out(Ok(Unit),
                                   [self EXCEPT !.root =
                                       replace_at(@, item.val,
                                           add_new_child(node_at(self.root, item.val),
                                                         pathvec[Len(pathvec)], vpath.val))],
                                   created)

\* TreeModel::create_new_file; io_ok says whether File::create succeeds.
create_new_file(self, path, candidate, files, io_ok) ==
    LET pathvec == resolve_virtual_path(self, path).val
    IN  IF check_path_exists(self, pathvec) THEN Out(Err(<<"AlreadyExists">>), self, files)
        ELSE IF file_stem(candidate) = None THEN Out(Panic(<<"unwrap on None">>), self, files)
        ELSE LET filename == pathvec[Len(pathvec)]
                 ext == IF extension(candidate) = None THEN <<>>
                        ELSE <<".">> \o extension(candidate)[1]
                 vpath == unique_path(candidate, file_stem(candidate)[1], ext, 0, files)
             IN  IF ~IsOk(vpath) THEN Out(vpath, self, files)
                 ELSE IF ~io_ok THEN Out(Err(<<"Io">>), self, files)
                 ELSE LET created == files \cup {canonical(vpath.val)}
                          item == item_at(self, SubSeq(pathvec, 1, Len(pathvec) - 1))
                      IN  IF ~IsOk(item) THEN Out(item, self, created)
                          ELSE Out(Ok(Unit),
                                   [self EXCEPT !.root =
                                       replace_at(@, item.val,
                                           add_new_child(node_at(self.root, item.val),
                                                         filename, vpath.val))],
                                   created)

\* The argument call_command passes for `arg`.
call_arg(self, arg) ==
    LET pathvec == resolve_virtual_path(self, arg).val
        found == item_at(self, pathvec)
        arg_ == IF ~IsOk(found) THEN arg
                ELSE IF node_at(self.root, found.val).entity = None THEN arg
                ELSE resolve_path(node_at(self.root, found.val).entity[1]).val
    IN  resolve_path(arg_).val

\* TreeModel::call_command on a build that is not for Windows; cmd_ok says
\* whether the shell could be started. Both answers name the arguments the
\* shell was started with.
call_command(self, inputs, cmd_ok) ==
    LET output == [i \in 1..Len(inputs) |-> call_arg(self, inputs[i])]
        args == <<<<"-", "C">>>> \o output
    IN  IF cmd_ok THEN Ok(<<"called", args>>) ELSE Err(<<"CallError", args>>)

\* ---------------------------------------------------------------------
\*   the JSON document: serde_json over #[derive(Serialize, Deserialize)]
\*
\*   A document is a sequence of tokens, each token a string: punctuation,
\*   null, a quoted and escaped string, or the white space of the pretty
\*   printer.
\* ---------------------------------------------------------------------

\* A string as serde_json writes it inside quotes, with only the quote
\* escaped.
RECURSIVE escape_quotes_only(_)
escape_quotes_only(str) ==
    IF Len(str) > 1
    THEN escape_quotes_only(SubSeq(str, 1, Len(str) \div 2))
             \o escape_quotes_only(SubSeq(str, Len(str) \div 2 + 1, Len(str)))
    ELSE IF str = <<>> THEN <<>>
    ELSE IF str[1] = "\"" THEN <<"\\", "\"">>
    ELSE str

\* A string as serde_json writes it inside quotes: character by character,
\* the two halves of the string one after the other.
RECURSIVE escape(_)
escape(str) ==
    IF Len(str) > 1
    THEN escape(SubSeq(str, 1, Len(str) \div 2))
             \o escape(SubSeq(str, Len(str) \div 2 + 1, Len(str)))
    ELSE IF str = <<>> THEN <<>>
    ELSE CASE str[1] = "\"" -> <<"\\", "\"">>
           [] str[1] = "\\" -> <<"\\", "\\">>
           [] str[1] = "\n" -> <<"\\", "n">>
           [] OTHER -> str

\* The string between the quotes of a token as serde_json reads it, from the
\* left: a backslash that is not itself escaped starts an escape; an escape
\* it does not know, a backslash at the end or a bare quote is an error.
unescape(str) ==
    LET run(i) == IF \A j \in 1..(i - 1) : str[j] = "\\" THEN i - 1
                  ELSE i - 1 - (CHOOSE j \in 1..(i - 1) :
                                    /\ str[j] # "\\"
                                    /\ \A k \in (j + 1)..(i - 1) : str[k] = "\\")
        starts == {i \in 1..Len(str) : str[i] = "\\" /\ run(i) % 2 = 0}
        read(i) == IF (i - 1) \in starts /\ str[i] = "n" THEN "\n" ELSE str[i]
        kept == SelectSeq([i \in 1..Len(str) |-> i], LAMBDA i : i \notin starts)
    IN  IF \/ \E i \in 1..Len(str) : str[i] = "\"" /\ (i - 1) \notin starts
           \/ \E i \in starts : i = Len(str) \/ str[i + 1] \notin {"\"", "\\", "/", "n"}
        THEN Err(<<"Json">>)
        ELSE Ok([k \in 1..Len(kept) |-> read(kept[k])])

\* The tokens of a document.
JStr(str) == <<"\"">> \o escape(str) \o <<"\"">>

JNull == <<"n", "u", "l", "l">>

JColon == <<":", " ">>

\* The line break and indentation to_string_pretty writes at depth n.
JIndent(n) == <<"\n">> \o [i \in 1..(2 * n) |-> " "]

\* Option<String> and Option<PathBuf> as a token.
JOption(opt) == IF opt = None THEN JNull ELSE JStr(opt[1])

\* serde_json::to_string_pretty(&TreeItem): the fields in the order of the
\* struct, the children in their order.
RECURSIVE to_json_at(_, _)
RECURSIVE children_to_json(_, _, _)
to_json_at(item, n) ==
    <<<<"{">>,
      JIndent(n + 1), JStr(<<"n", "a", "m", "e">>), JColon, JStr(item.name), <<",">>,
      JIndent(n + 1), JStr(<<"c", "h", "i", "l", "d", "r", "e", "n">>), JColon>>
    \o (IF item.children = <<>> THEN <<<<"[">>, <<"]">>>>
        ELSE <<<<"[">>>> \o children_to_json(item.children, 1, n + 2)
                 \o <<JIndent(n + 1), <<"]">>>>)
    \o <<<<",">>,
         JIndent(n + 1), JStr(<<"d", "e", "s", "c">>), JColon, JOption(item.desc), <<",">>,
         JIndent(n + 1), JStr(<<"e", "n", "t", "i", "t", "y">>), JColon, JOption(item.entity),
         JIndent(n), <<"}">>>>

children_to_json(children, i, n) ==
    IF i > Len(children) THEN <<>>
    ELSE <<JIndent(n)>> \o to_json_at(children[i], n)
             \o (IF i < Len(children) THEN <<<<",">>>> ELSE <<>>)
             \o children_to_json(children, i + 1, n)

to_json(item) == to_json_at(item, 0)

\* White space between the tokens means nothing to the reader.
significant(toks) == SelectSeq(toks, LAMBDA t : t[1] \notin {"\n", " "})

\* What the reader gives: a value and the tokens after it, or an error.
Parsed(val, rest) == [tag |-> "Ok", val |-> val, rest |-> rest]

ParseError == [tag |-> "Err", val |-> <<"Json">>, rest |-> <<>>]

\* A quoted string at the head of toks.
parse_string(toks) ==
    IF toks = <<>> \/ Len(Head(toks)) < 2 \/ Head(toks)[1] # "\""
          \/ Head(toks)[Len(Head(toks))] # "\""
    THEN ParseError
    ELSE LET str == unescape(SubSeq(Head(toks), 2, Len(Head(toks)) - 1))
         IN  IF IsOk(str) THEN Parsed(str.val, Tail(toks)) ELSE ParseError

\* null or a quoted string at the head of toks, as an Option.
parse_option(toks) ==
    IF toks # <<>> /\ Head(toks) = JNull THEN Parsed(None, Tail(toks))
    ELSE LET str == parse_string(toks)
         IN  IF IsOk(str) THEN Parsed(Some(str.val), str.rest) ELSE ParseError

\* The derived Deserialize of TreeItem: an object whose fields come in any
\* order and at most once; name and children must be there, a missing
\* Option is None. `seen` holds the fields read so far. Fields other than the
\* four of TreeItem do not occur in the documents of the model.
RECURSIVE parse_item(_)
RECURSIVE parse_fields(_, _)
RECURSIVE parse_children(_, _)
parse_item(toks) ==
    IF toks = <<>> \/ Head(toks) # <<"{">> THEN ParseError
    ELSE parse_fields(Tail(toks), [name |-> None, children |-> None,
                                   desc |-> None, entity |-> None])

parse_fields(toks, seen) ==
    IF toks = <<>> THEN ParseError
    ELSE IF Head(toks) = <<"}">>
         THEN IF seen.name = None \/ seen.children = None THEN ParseError
              ELSE Parsed(TreeItem(seen.name[1], seen.children[1],
                                   IF seen.desc = None THEN None ELSE seen.desc[1],
                                   IF seen.entity = None THEN None ELSE seen.entity[1]),
                          Tail(toks))
    ELSE CHOOSE out \in
        {LET value == IF key.rest # <<>> /\ Head(key.rest)[1] = ":"
                      THEN Tail(key.rest) ELSE <<>>
             field == CASE key.val = <<"n", "a", "m", "e">> -> "name"
                        [] key.val = <<"c", "h", "i", "l", "d", "r", "e", "n">> -> "children"
                        [] key.val = <<"d", "e", "s", "c">> -> "desc"
                        [] key.val = <<"e", "n", "t", "i", "t", "y">> -> "entity"
                        [] OTHER -> "unknown"
         IN  CHOOSE after \in
             {LET now == CASE field = "name" -> [seen EXCEPT !.name = Some(read.val)]
                           [] field = "children" -> [seen EXCEPT !.children = Some(read.val)]
                           [] field = "desc" -> [seen EXCEPT !.desc = Some(read.val)]
                           [] field = "entity" -> [seen EXCEPT !.entity = Some(read.val)]
                           [] OTHER -> seen
              IN  IF ~IsOk(key) \/ ~IsOk(read) THEN ParseError
                  ELSE IF seen[field] # None THEN ParseError
                  ELSE IF read.rest = <<>> THEN ParseError
                  ELSE IF Head(read.rest) = <<",">>
                       THEN IF Len(read.rest) > 1 /\ read.rest[2] = <<"}">> THEN ParseError
                            ELSE parse_fields(Tail(read.rest), now)
                  ELSE IF Head(read.rest) = <<"}">> THEN parse_fields(read.rest, now)
                  ELSE ParseError :
                  read \in {CASE field = "name" -> parse_string(value)
                              [] field = "children" ->
                                     IF value = <<>> \/ Head(value) # <<"[">> THEN ParseError
                                     ELSE parse_children(Tail(value), <<>>)
                              [] field \in {"desc", "entity"} -> parse_option(value)
                              [] OTHER -> ParseError}} : TRUE :
             key \in {parse_string(toks)}} : TRUE

parse_children(toks, items) ==
    IF toks = <<>> THEN ParseError
    ELSE IF Head(toks) = <<"]">>
         THEN Parsed(items, Tail(toks))
    ELSE CHOOSE out \in
        {IF ~IsOk(item) \/ item.rest = <<>> THEN ParseError
         ELSE IF Head(item.rest) = <<",">>
              THEN IF Len(item.rest) > 1 /\ item.rest[2] = <<"]">> THEN ParseError
                   ELSE parse_children(Tail(item.rest), Append(items, item.val))
         ELSE IF Head(item.rest) = <<"]">>
              THEN parse_children(item.rest, Append(items, item.val))
         ELSE ParseError :
             item \in {parse_item(toks)}} : TRUE

\* serde_json::from_reader::<TreeItem>: one item and nothing after it.
from_json(text) ==
    CHOOSE out \in
        {IF IsOk(item) /\ item.rest = <<>> THEN Ok(<<item.val>>) ELSE Err(<<"Json">>) :
             item \in {parse_item(significant(text))}} : TRUE

\* ---------------------------------------------------------------------
\*   documents, names and path strings of the runs
\* ---------------------------------------------------------------------

DirA == <<"d", "i", "r", "-", "A">>

DirB == <<"d", "i", "r", "-", "B">>

DirC == <<"d", "i", "r", "-", "C">>

ItemTxt == <<"i", "t", "e", "m", ".", "t", "x", "t">>

NAME == <<"N", "A", "M", "E">>

NewTxt == <<"n", "e", "w", ".", "t", "x", "t">>

Sl == <<"/">>

\* "./src/main.rs", the file the documents of the tests alias.
MainRs == <<".", "/", "s", "r", "c", "/", "m", "a", "i", "n", ".", "r", "s">>

\* A path that names no file.
NoFile == <<".", "/", "n", "o", "n", "e">>

\* "./.vtree/virtual-files", the private storage directory.
VirtualFiles ==
    <<".", "/", ".", "v", "t", "r", "e", "e", "/",
      "v", "i", "r", "t", "u", "a", "l", "-", "f", "i", "l", "e", "s">>

TestItem == <<"t", "e", "s", "t", " ", "i", "t", "e", "m">>

\* const JSON_0 of test_tree_model
JSON_0 ==
    TreeItem(<<"t", "e", "s", "t">>,
             <<TreeItem(DirA, <<TreeItem(ItemTxt, <<>>, Some(TestItem), Some(MainRs))>>,
                        None, None),
               TreeItem(DirB, <<>>, None, None)>>,
             None, None)

\* const JSON_1 of test_tree_model
JSON_1 ==
    TreeItem(<<"t", "e", "s", "t">>,
             <<TreeItem(NAME, <<>>, None, Some(MainRs)),
               TreeItem(NAME, <<TreeItem(ItemTxt, <<>>, Some(TestItem), Some(MainRs))>>,
                        None, None)>>,
             None, None)

\* The document `vtree new` writes: a root without children.
JSON_NEW == TreeItem(<<"t", "e", "s", "t">>, <<>>, None, None)

Documents == {JSON_NEW, JSON_0, JSON_1}

\* The names handed to move_forward: its callers (move_by_string, the tests)
\* hand it a non-empty segment other than "..".
Names == {DirA, DirB, DirC, ItemTxt, NAME}

\* Path strings of the queries.
PathStrs ==
    {<<>>, <<".">>, <<"~">>, <<".", ".">>,
     DirA, DirB, <<".", "/">> \o ItemTxt, DirA \o <<"\\">> \o ItemTxt,
     <<"~", "/">> \o DirA \o Sl \o DirB, NAME \o <<"#", "1">>, NAME \o <<"#", "2">>}

\* Optional path strings of ls.
LsStrs == {None, Some(<<".">>), Some(DirA), Some(DirA \o Sl \o DirB), Some(NAME)}

\* Path strings of cat.
CatStrs == {ItemTxt, DirA \o Sl \o ItemTxt, DirA}

\* Path strings of cd.
CdStrs ==
    {<<>>, <<".">>, <<"~">>, <<".", ".">>, DirA \o Sl \o DirB,
     DirA \o <<"/", ".", ".", "/">> \o DirB \o Sl \o DirC}

\* Path strings of mkdir.
MkdirStrs == {<<>>, DirC, DirA \o Sl \o DirA, DirA \o <<"#">>}

\* Path strings of rm.
RmStrs == {<<>>, DirB, DirA \o Sl \o ItemTxt}

\* Optional path strings of cp.
AliasStrs == {None, Some(<<".">>), Some(DirA \o Sl \o NewTxt)}

\* Path strings of touch.
TouchStrs == {NewTxt, DirA \o Sl \o ItemTxt, DirC \o Sl \o NewTxt}

\* ---------------------------------------------------------------------
\*   History (vtui/history.rs)
\* ---------------------------------------------------------------------

\* History::new(max): no entry, the cursor at 0.
History_new(max) == [history |-> <<>>, index |-> 0, max |-> max]

\* The history of a program whose command line is not being edited.
NoHistory == History_new(0)

\* History::add without the pop_front.
History_add_keeps_oldest(self, s) ==
    LET pushed == Append(self.history, s)
    IN  [r |-> Ok(Unit),
         self |-> [self EXCEPT !.history = pushed, !.index = Len(pushed)]]

\* History::add(s): push_back, pop_front when len() > max, the cursor behind
\* the last entry.
History_add(self, s) ==
    LET pushed == Append(self.history, s)
        kept == IF Len(pushed) > self.max THEN Tail(pushed) ELSE pushed
    IN  [r |-> Ok(Unit),
         self |-> [self EXCEPT !.history = kept, !.index = Len(kept)]]

\* History::clear().
History_clear(self) ==
    [r |-> Ok(Unit), self |-> [self EXCEPT !.history = <<>>, !.index = 0]]

\* History::prev(): None at index 0; else the cursor steps back and the entry
\* under it is cloned.  VecDeque's Index panics out of bounds; history[i] of
\* the code is history[i + 1] here.
History_prev(self) ==
    IF self.index = 0 THEN [r |-> Ok(None), self |-> self]
    ELSE LET moved == [self EXCEPT !.index = self.index - 1]
         IN  IF moved.index >= Len(self.history)
             THEN [r |-> Panic("Out of bounds access"), self |-> moved]
             ELSE [r |-> Ok(Some(self.history[moved.index + 1])), self |-> moved]

\* History::next(): None at index == len; else the entry under the cursor,
\* and the cursor steps forward unless it is on the last entry.
History_next(self) ==
    IF self.index = Len(self.history) THEN [r |-> Ok(None), self |-> self]
    ELSE IF self.index > Len(self.history)
    THEN [r |-> Panic("Out of bounds access"), self |-> self]
    ELSE [r |-> Ok(Some(self.history[self.index + 1])),
          self |-> IF self.index < Len(self.history) - 1
                   THEN [self EXCEPT !.index = self.index + 1] ELSE self]

\* ---------------------------------------------------------------------
\*   the state machine
\* ---------------------------------------------------------------------

\* The number of items below `item`.
RECURSIVE count_items(_)
RECURSIVE count_children(_, _)
count_items(item) == count_children(item.children, 1)

count_children(children, i) ==
    IF i > Len(children) THEN 0
    ELSE 1 + count_items(children[i]) + count_children(children, i + 1)

\* A call of `op` with `arg` that gives `out`; `from` keeps the path before it.
Call(op, arg, out) ==
    /\ last.op = Idle.op
    /\ count_items(out.self.root) <= MaxNodes
    /\ Cardinality(out.files) <= MaxFiles
    /\ last' = [op |-> op, arg |-> arg, r |-> out.r, from |-> tree.path]
    /\ tree' = out.self
    /\ disk' = out.files
    /\ UNCHANGED <<doc, history>>

\* A call of a method that takes &self.
Query(op, arg, r) == Call(op, arg, Out(r, tree, disk))

Init ==
    /\ tree \in {TreeModel_new(d) : d \in Documents}
    /\ disk = {canonical(MainRs)}
    /\ last = Idle
    /\ doc = None
    /\ history = NoHistory

MoveForward(name) == Call("move_forward", name, move_forward(tree, name, disk))

MoveBackward(level) == Call("move_backward", level, move_backward(tree, level, disk))

MoveToHome == Call("move_to_home", <<>>, move_to_home(tree, disk))

MoveByString(path) == Call("move_by_string", path, move_by_string(tree, path, disk))

CurrentItem == Query("current_item", <<>>, current_item(tree, disk))

ResolveVirtualPath(path) ==
    Query("resolve_virtual_path", path, resolve_virtual_path(tree, path))

GetItem(path) == Query("get_item", path, get_item(tree, path))

LsSimple(path) == Query("ls_simple", path, ls_simple(tree, path, disk))

LsDetailed(path) == Query("ls_detailed", path, ls_detailed(tree, path, disk))

ReadFile(path) == Query("read_file", path, read_file(tree, path, disk))

MakeDirectory(path) == Call("make_directory", path, make_directory(tree, path, disk))

RemoveChild(path) == Call("remove_child", path, remove_child(tree, path, disk))

AddAlias(path, filepath) ==
    Call("add_alias", <<path, filepath>>, add_alias(tree, path, filepath, disk))

CreateNewFile(path, candidate, io_ok) ==
    Call("create_new_file", <<path, candidate, io_ok>>,
         create_new_file(tree, path, candidate, disk, io_ok))

\* The caller takes the result and goes on; after a panic there is no caller.
Return ==
    /\ last.op # Idle.op
    /\ last.r.tag # "Panic"
    /\ last' = Idle
    /\ UNCHANGED <<tree, disk, doc, history>>

Next ==
    \/ \E name \in Names : MoveForward(name)
    \/ \E level \in 0..MaxLevel : MoveBackward(level)
    \/ MoveToHome
    \/ \E path \in CdStrs : MoveByString(path)
    \/ CurrentItem
    \/ \E path \in PathStrs : ResolveVirtualPath(path)
    \/ \E path \in PathStrs : GetItem(path)
    \/ \E path \in LsStrs : LsSimple(path)
    \/ \E path \in LsStrs : LsDetailed(path)
    \/ \E path \in CatStrs : ReadFile(path)
    \/ \E path \in MkdirStrs : MakeDirectory(path)
    \/ \E path \in RmStrs : RemoveChild(path)
    \/ \E path \in AliasStrs, filepath \in {MainRs, NoFile} : AddAlias(path, filepath)
    \/ \E path \in TouchStrs, io_ok \in BOOLEAN :
           CreateNewFile(path, path_join(VirtualFiles, NewTxt), io_ok)
    \/ Return

Spec == Init /\ [][Next]_vars

\* ---------------------------------------------------------------------
\*   resolve_virtual_path on every short path string
\* ---------------------------------------------------------------------

\* The characters of the enumerated path strings.
Alphabet == {"a", "/", "\\", ".", "~"}

\* Every string over Alphabet of length MaxStrLen at most.
AllStrs == UNION {[1..n -> Alphabet] : n \in 0..MaxStrLen}

NextResolve ==
    \/ \E name \in Names : MoveForward(name)
    \/ \E level \in 0..MaxLevel : MoveBackward(level)
    \/ MoveToHome
    \/ \E path \in AllStrs : ResolveVirtualPath(path)
    \/ Return

SpecResolve == Init /\ [][NextResolve]_vars

\* ---------------------------------------------------------------------
\*   properties of navigation and lookup
\* ---------------------------------------------------------------------

\* The model as it stood when the last call was made, for a call that left the
\* tree alone.
Before == [tree EXCEPT !.path = last.from]

\* C1: after any sequence of operations every prefix of `path` names an
\* existing directory, so that current_item() succeeds.
C1_PathInsideTree ==
    \A k \in 0..Len(tree.path) :
        IsOk(walk_dirs(tree.root, SubSeq(tree.path, 1, k), <<>>, disk))

\* C2: from a position inside the tree move_forward(name) succeeds exactly when
\* the current node has a directory child called `name`; then the path is the
\* old path with `name` appended and current_item() is that child.
C2_MoveForwardIffDirChild ==
    (last.op = "move_forward" /\ IsOk(current_item(Before, disk))) =>
        LET cur == current_item(Before, disk).val
            here == node_at(tree.root, cur)
        IN  /\ IsOk(last.r) <=> has_dir(here, last.arg, disk)
            /\ IsOk(last.r) =>
                  /\ tree.path = Append(last.from, last.arg)
                  /\ current_item(tree, disk) =
                         Ok(Append(cur, get_child_dir(here, last.arg, disk).val))

\* C3: a move_forward that fails returns an error and leaves the path, the node
\* graph and the disk as they were.
C3_FailedMoveForwardChangesNothing ==
    [][(last'.op = "move_forward" /\ ~IsOk(last'.r)) =>
           (last'.r.tag = "Err" /\ tree' = tree /\ disk' = disk)]_vars

\* C3 witness: move_forward("item.txt") has failed inside dir-A of JSON_0.
C3_Witness ==
    /\ last.op = "move_forward" /\ last.arg = ItemTxt /\ last.r.tag = "Err"
    /\ last.from = <<DirA>> /\ tree = [root |-> JSON_0, path |-> <<DirA>>]

\* C4: get_item(p) is the walk from the root through get_child, one step per
\* segment of resolve_virtual_path(p), failing at the first segment that is
\* not found.
C4_GetItemWalksResolvedPath ==
    last.op = "get_item" =>
        last.r = walk_children(tree.root, resolve_virtual_path(Before, last.arg).val, <<>>)

\* C5: at every position inside the tree, the root included, ls_simple(None)
\* gives the names of the children of the current directory, in order, joined
\* by single spaces.
C5_LsSimpleListsCurrentDirectory ==
    (last.op = "ls_simple" /\ last.arg = None /\ IsOk(current_item(Before, disk))) =>
        last.r = Ok(join(children_names(node_at(tree.root, current_item(Before, disk).val)),
                         <<" ">>))

\* C6: every operation of TreeModel returns success or an error value; none
\* ends in a panic.
C6_NoOperationPanics ==
    last.op \in {"ls_simple", "ls_detailed", "make_directory", "remove_child",
                 "add_alias", "create_new_file", "get_item", "read_file",
                 "move_forward", "move_by_string"}
        => last.r.tag \in {"Ok", "Err"}

\* C10: move_backward(n) never fails and removes exactly min(n, len(path))
\* trailing segments; from the root it changes nothing.
C10_MoveBackwardClamps ==
    last.op = "move_backward" =>
        /\ IsOk(last.r)
        /\ Len(tree.path) = (IF last.arg < Len(last.from) THEN Len(last.from) - last.arg ELSE 0)
        /\ \A i \in 1..Len(tree.path) : tree.path[i] = last.from[i]
        /\ (last.from = <<>> => tree.path = <<>>)

\* C10 witness: a move_backward of more levels than the path has segments.
C10_Witness ==
    /\ last.op = "move_backward" /\ last.from # <<>>
    /\ last.arg > Len(last.from) /\ tree.path = <<>>

\* ---------------------------------------------------------------------
\*   properties of resolve_virtual_path
\* ---------------------------------------------------------------------

\* The model at the root of the tree.
AtHome == [tree EXCEPT !.path = PathVector_new]

\* Segments that are no special token.
PlainSegs == {<<"a">>, <<"b">>, <<"a", ".">>}

\* C7: a string that begins with `~` is resolved from an empty base, any other
\* string from the segments of the current path, as if the current path were
\* written in front of it; the current path is not modified.
C7_ResolveBase ==
    last.op = "resolve_virtual_path" =>
        /\ tree.path = last.from
        /\ IF starts_with(last.arg, <<"~">>)
           THEN last.r = resolve_virtual_path(AtHome, last.arg)
           ELSE last.r = resolve_virtual_path(AtHome, to_string(tree.path) \o Sl \o last.arg)

\* C7 witness: "~/a" resolved inside dir-A gives the root-relative <<"a">>.
C7_Witness ==
    /\ last.op = "resolve_virtual_path" /\ last.arg = <<"~", "/", "a">>
    /\ tree.path = <<DirA>> /\ last.r = Ok(<<<<"a">>>>)

\* C8: `\` and `/` are the same separator, and empty, `.` and `~` segments are
\* dropped: writing either separator for the other, or adding such a segment,
\* does not change the result, and no such segment is in the result.
C8_ResolveNormalises ==
    last.op = "resolve_virtual_path" =>
        /\ last.r = resolve_virtual_path(tree, replace(last.arg, "\\", "/"))
        /\ last.r = resolve_virtual_path(tree, replace(last.arg, "/", "\\"))
        /\ last.r = resolve_virtual_path(tree, last.arg \o <<"/">>)
        /\ last.r = resolve_virtual_path(tree, last.arg \o <<"/", ".">>)
        /\ last.r = resolve_virtual_path(tree, last.arg \o <<"\\", "~">>)
        /\ ~starts_with(last.arg, <<"~">>) =>
              /\ last.r = resolve_virtual_path(tree, <<"/">> \o last.arg)
              /\ last.r = resolve_virtual_path(tree, <<".", "/">> \o last.arg)
        /\ \A i \in 1..Len(last.r.val) :
              /\ last.r.val[i] \notin {<<>>, <<".">>, <<"~">>}
              /\ \A j \in 1..Len(last.r.val[i]) : last.r.val[i][j] \notin {"/", "\\"}

\* C8 witness: ".\a" resolved inside dir-A gives <<"dir-A", "a">>.
C8_Witness ==
    /\ last.op = "resolve_virtual_path" /\ last.arg = <<".", "\\", "a">>
    /\ tree.path = <<DirA>> /\ last.r = Ok(<<DirA, <<"a">>>>)

\* C9: `..` removes the last accumulated segment and is a no-op, not an error,
\* when there is none; so `p/x/..` resolves like `p` for every plain segment x.
C9_DotDotPops ==
    last.op = "resolve_virtual_path" =>
        /\ IsOk(last.r)
        /\ \A x \in PlainSegs :
              last.r = resolve_virtual_path(tree, last.arg \o Sl \o x \o <<"/", ".", ".">>)
        /\ (tree.path = <<>> /\ last.arg \in {<<".", ".">>, <<".", ".", "/", ".">>})
              => last.r = Ok(<<>>)
        /\ (tree.path # <<>> /\ last.arg = <<".", ".">>)
              => last.r = Ok(SubSeq(tree.path, 1, Len(tree.path) - 1))

\* C9 witness: ".." resolved at the root gives the empty list.
C9_Witness ==
    /\ last.op = "resolve_virtual_path" /\ last.arg = <<".", ".">>
    /\ tree.path = <<>> /\ last.r = Ok(<<>>)

\* ---------------------------------------------------------------------
\*   properties of make_directory and create_new_file on the model
\* ---------------------------------------------------------------------

\* C11: at every position inside the tree, the root included, make_directory of
\* a valid name that no directory child of the current node carries succeeds,
\* appends one empty child without entity as the last child of the current
\* node and changes nothing else; ls_simple(None) then ends with that name.
C11_MakeDirectoryAppendsChild ==
    [][(/\ last'.op = "make_directory" /\ last'.arg = DirC
        /\ IsOk(current_item(tree, disk))
        /\ ~has_dir(node_at(tree.root, current_item(tree, disk).val), DirC, disk))
       => LET cur == current_item(tree, disk).val
              here == node_at(tree.root, cur)
          IN  /\ IsOk(last'.r)
              /\ tree'.path = tree.path /\ disk' = disk
              /\ tree'.root = replace_at(tree.root, cur,
                                  [here EXCEPT !.children = Append(@, new(DirC))])
              /\ ls_simple(tree', None, disk') =
                     Ok(join(Append(children_names(here), DirC), <<" ">>))]_vars

\* C20: create_new_file(path_str, candidate) fails with AlreadyExists when the
\* resolved path names a node that is already in the tree; no backing file is
\* created and no node is added.
C20_CreateExistingFails ==
    [][(/\ last'.op = "create_new_file"
        /\ IsOk(walk_children(tree.root, resolve_virtual_path(tree, last'.arg[1]).val, <<>>)))
       => (last'.r = Err(<<"AlreadyExists">>) /\ tree' = tree /\ disk' = disk)]_vars

\* C20 witness: create_new_file("dir-A/item.txt", ..) has failed at the root of
\* JSON_0, whose dir-A holds item.txt.
C20_Witness ==
    /\ last.op = "create_new_file" /\ last.arg[1] = DirA \o Sl \o ItemTxt
    /\ last.r = Err(<<"AlreadyExists">>)
    /\ tree = TreeModel_new(JSON_0) /\ disk = {canonical(MainRs)}

\* ---------------------------------------------------------------------
\*   the operations of TreeItem on any node of the tree, and a backing
\*   file that disappears
\* ---------------------------------------------------------------------

\* The index sequences of all the nodes of `item`, the item itself included.
RECURSIVE Positions(_)
Positions(item) ==
    {<<>>} \cup UNION {{<<i>> \o p : p \in Positions(item.children[i])} :
                          i \in 1..Len(item.children)}

\* The names of the children created and looked up.
ItemNames == {NAME, ItemTxt}

\* name#n as the caller writes it.
nth_of(name, n) == name \o <<"#">> \o to_digits(n)

\* The strings handed to get_child: plain names and names with a #n suffix.
GetChildStrs == ItemNames \cup {nth_of(name, n) : name \in ItemNames, n \in 0..MaxNodes}

\* A call of a &mut self method of the TreeItem at `at`; r holds the changed
\* item when the method succeeds.
ItemCall(op, at, arg, r) ==
    Call(op, <<at, arg>>,
         IF IsOk(r) THEN Out(Ok(Unit), [tree EXCEPT !.root = replace_at(@, at, r.val)], disk)
         ELSE Out(r, tree, disk))

ItemMakeDirectory(at, name) ==
    ItemCall("TreeItem::make_directory", at, name,
             item_make_directory(node_at(tree.root, at), name, disk))

ItemAddNewChild(at, name, path) ==
    ItemCall("TreeItem::add_new_child", at, name,
             Ok(add_new_child(node_at(tree.root, at), name, path)))

ItemRemoveChild(at, name) ==
    ItemCall("TreeItem::remove_child", at, name,
             item_remove_child(node_at(tree.root, at), name))

\* The reference a lookup returns, as the index sequence from the node to the
\* child it found.
Child(r) == IF IsOk(r) THEN Ok(<<r.val>>) ELSE r

GetChild(at, name) ==
    Query("TreeItem::get_child", <<at, name>>, Child(get_child(node_at(tree.root, at), name)))

GetChildDir(at, name) ==
    Query("TreeItem::get_child_dir", <<at, name>>,
          Child(get_child_dir(node_at(tree.root, at), name, disk)))

IsFile(at) == Query("TreeItem::is_file", <<at>>, Ok(<<is_file(node_at(tree.root, at), disk)>>))

IsDir(at) == Query("TreeItem::is_dir", <<at>>, Ok(<<is_dir(node_at(tree.root, at), disk)>>))

\* Another process deletes a file; the tree is not told.
Unlink(file) ==
    /\ last.op = Idle.op
    /\ file \in disk
    /\ disk' = disk \ {file}
    /\ last' = [op |-> "unlink", arg |-> file, r |-> Ok(Unit), from |-> tree.path]
    /\ UNCHANGED <<tree, doc, history>>

InitItem ==
    /\ tree = TreeModel_new(JSON_1)
    /\ disk = {canonical(MainRs)}
    /\ last = Idle
    /\ doc = None
    /\ history = NoHistory

NextItem ==
    \/ \E at \in Positions(tree.root), name \in {NAME} : ItemMakeDirectory(at, name)
    \/ \E at \in Positions(tree.root), name \in ItemNames : ItemAddNewChild(at, name, MainRs)
    \/ \E at \in Positions(tree.root), name \in ItemNames : ItemRemoveChild(at, name)
    \/ \E at \in Positions(tree.root), name \in GetChildStrs : GetChild(at, name)
    \/ \E at \in Positions(tree.root), name \in ItemNames : GetChildDir(at, name)
    \/ \E at \in Positions(tree.root) : IsFile(at)
    \/ \E at \in Positions(tree.root) : IsDir(at)
    \/ \E file \in disk : Unlink(file)
    \/ Return

SpecItem == InitItem /\ [][NextItem]_vars

\* The same with the navigation of TreeModel, which asks the nodes on its way
\* whether they are directories.
NextNav ==
    \/ NextItem
    \/ \E name \in ItemNames : MoveForward(name)
    \/ MoveToHome
    \/ \E name \in ItemNames : LsSimple(Some(name))
    \/ \E name \in ItemNames : ReadFile(name)

SpecNav == InitItem /\ [][NextNav]_vars

\* ---------------------------------------------------------------------
\*   properties of the operations of TreeItem
\* ---------------------------------------------------------------------

\* The indices of the children of `self` called `name`, in insertion order.
Named(self, name) == {i \in 1..Len(self.children) : self.children[i].name = name}

\* The least member of a non-empty set of indices.
First(S) == CHOOSE i \in S : \A j \in S : i <= j

\* The indices of the children of `self` called `name` that are directories now.
NamedDirs(self, name, files) == {i \in Named(self, name) : is_dir(self.children[i], files)}

\* C12: Node.make_directory(name) fails with AlreadyExists exactly when a child
\* of that exact name is a directory at the time of the call (a file child of
\* the name does not block it); on that failure the children are unchanged.
C12_AlreadyExistsIffDirChild ==
    [][last'.op = "TreeItem::make_directory" =>
          LET self == node_at(tree.root, last'.arg[1])
              blocked == NamedDirs(self, last'.arg[2], disk) # {}
              refused == last'.r.tag = "Err" /\ last'.r.val = <<"AlreadyExists">>
          IN  /\ refused <=> blocked
              /\ refused => tree' = tree]_vars

\* C12 witness: make_directory("NAME") has succeeded on a node whose only child
\* was a file called NAME.
C12_Witness ==
    /\ last.op = "TreeItem::make_directory" /\ last.arg = <<<<>>, NAME>> /\ IsOk(last.r)
    /\ tree.root.children = <<new_file(NAME, MainRs), new(NAME)>>
    /\ is_file(tree.root.children[1], disk)

C15_GetChildErrors ==
    [][last'.op \in {"TreeItem::get_child", "TreeItem::get_child_dir"} =>
          /\ tree' = tree /\ disk' = disk
          /\ last'.op = "TreeItem::get_child" =>
                LET self == node_at(tree.root, last'.arg[1])
                    failed(kind) == last'.r.tag = "Err" /\ last'.r.val = kind
                IN  \A name \in ItemNames :
                        LET count == Cardinality(Named(self, name))
                        IN  /\ (last'.arg[2] = name /\ count = 0) => failed(<<"NotFound">>)
                            /\ \A n \in 0..MaxNodes :
                                  last'.arg[2] = nth_of(name, n) =>
                                    /\ count = 0 => failed(<<"NotFound">>)
                                    /\ (count >= 1 /\ n >= count)
                                         => failed(<<"Ambiguous", count>>)]_vars

\* C15 witness: get_child("NAME#2") on the root of JSON_1, which has two
\* children called NAME, has failed with Ambiguous(2).
C15_Witness ==
    /\ last.op = "TreeItem::get_child" /\ last.arg = <<<<>>, nth_of(NAME, 2)>>
    /\ tree.root = JSON_1 /\ last.r = Err(<<"Ambiguous", 2>>)

\* C16: when siblings share a name and only some are directories,
\* get_child_dir(name), and with it move_forward(name) from their parent,
\* selects the first child of the name that is a directory and skips the file
\* children of the name; it fails with NotFound when no child of the name is a
\* directory.
C16_DirAmongSameNamed ==
    /\ last.op = "TreeItem::get_child_dir" =>
          LET dirs == NamedDirs(node_at(tree.root, last.arg[1]), last.arg[2], disk)
          IN  IF dirs = {} THEN last.r = Err(<<"NotFound">>)
              ELSE last.r = Ok(<<First(dirs)>>)
    /\ (last.op = "move_forward" /\ IsOk(current_item(Before, disk))) =>
          LET cur == current_item(Before, disk).val
              here == node_at(tree.root, cur)
              dirs == NamedDirs(here, last.arg, disk)
          IN  /\ (dirs # {} /\ dirs # Named(here, last.arg))
                    => /\ IsOk(last.r)
                       /\ tree.path = Append(last.from, last.arg)
                       /\ current_item(tree, disk) = Ok(Append(cur, First(dirs)))
              /\ dirs = {} => (last.r = Err(<<"NotFound">>) /\ tree.path = last.from)

\* C17: Node.remove_child(name) removes exactly one child, the first in
\* insertion order whose name is `name`, and keeps every other child in its
\* order; when no child has the name it fails with NotFound and changes nothing.
C17_RemoveChildRemovesFirst ==
    [][last'.op = "TreeItem::remove_child" =>
          LET at == last'.arg[1]
              self == node_at(tree.root, at)
              named == Named(self, last'.arg[2])
          IN  /\ tree'.path = tree.path /\ disk' = disk
              /\ IF named = {}
                 THEN last'.r.tag = "Err" /\ last'.r.val = <<"NotFound">> /\ tree' = tree
                 ELSE /\ IsOk(last'.r)
                      /\ tree'.root = replace_at(tree.root, at,
                             [self EXCEPT !.children =
                                 [k \in 1..(Len(self.children) - 1) |->
                                     IF k < First(named) THEN self.children[k]
                                     ELSE self.children[k + 1]]])]_vars

\* C17 witness: remove_child("NAME") on the root of JSON_1 has removed the
\* first NAME, the file, and left the second, the directory with its child.
C17_Witness ==
    /\ last.op = "TreeItem::remove_child" /\ last.arg = <<<<>>, NAME>> /\ IsOk(last.r)
    /\ tree.root.children = <<JSON_1.children[2]>>

\* ---------------------------------------------------------------------
\*   properties of the classification of a node as file or directory
\* ---------------------------------------------------------------------

\* The entity of `item` names a regular file that exists now.
Resolves(item, files) == item.entity # None /\ canonical(item.entity[1]) \in files

C19_DeletedFileIsDirectory ==
    /\ last.op = "TreeItem::is_file" =>
          LET node == node_at(tree.root, last.arg[1])
          IN  (node.entity # None /\ canonical(node.entity[1]) \notin disk)
                 => last.r.val[1] = FALSE
    /\ (/\ last.op \in {"move_forward", "ls_simple", "read_file"}
        /\ IsOk(current_item(Before, disk))) =>
          LET here == node_at(tree.root, current_item(Before, disk).val)
              name == IF last.op = "ls_simple" THEN last.arg[1] ELSE last.arg
              named == Named(here, name)
          IN  (/\ named # {}
               /\ here.children[First(named)].children = <<>>
               /\ here.children[First(named)].entity # None
               /\ ~Resolves(here.children[First(named)], disk))
                 => IF last.op = "read_file" THEN last.r.tag = "Err"
                    ELSE IF last.op = "ls_simple" THEN last.r = Ok(<<>>)
                    ELSE IsOk(last.r) /\ tree.path = Append(last.from, name)

\* ---------------------------------------------------------------------
\*   TreeItem::make_directory on every short name
\* ---------------------------------------------------------------------

\* The reserved characters, as the message of make_directory lists them.
Reserved == {"\\", "/", "#", "|", "\"", "*", "?", "<", ">", ":"}

\* A name of n letters.
Letters(n) == [i \in 1..n |-> "a"]

\* Every name of MaxNameLen characters at most that is made of letters, or of
\* letters and one reserved character at any place.
AllNames ==
    {Letters(n) : n \in 0..MaxNameLen} \cup
    UNION {{[Letters(n) EXCEPT ![p] = c] : p \in 1..n, c \in Reserved} : n \in 1..MaxNameLen}

\* The name of an alias that holds a reserved character: add_new_child takes
\* any name.
Hash == <<"#">>

InitNames ==
    /\ tree = TreeModel_new(JSON_NEW)
    /\ disk = {canonical(MainRs)}
    /\ last = Idle
    /\ doc = None
    /\ history = NoHistory

NextNames ==
    \/ \E name \in AllNames : ItemMakeDirectory(<<>>, name)
    \/ ItemAddNewChild(<<>>, Hash, MainRs)
    \/ \E file \in disk : Unlink(file)
    \/ Return

SpecNames == InitNames /\ [][NextNames]_vars

\* `name` holds a reserved character.
HasReserved(name) == \E i \in 1..Len(name) : name[i] \in Reserved

\* C13: make_directory fails with InvalidName for any name that holds one of
\* the characters \ / # | " * ? < > : and adds no child; a name without them
\* is not refused as invalid.
C13_ReservedGivesInvalidName ==
    [][last'.op = "TreeItem::make_directory" =>
          IF HasReserved(last'.arg[2])
          THEN last'.r = Err(<<"InvalidName">>) /\ tree' = tree
          ELSE last'.r # Err(<<"InvalidName">>)]_vars

\* C13, amended: make_directory fails and adds no child for any name that holds
\* one of the characters \ / # | " * ? < > :, with InvalidName unless a
\* directory child already carries that exact name, in which case with
\* AlreadyExists; a name without these characters is never refused as invalid
\* and is accepted when no directory child carries it.
C13_ReservedNameRefused ==
    [][last'.op = "TreeItem::make_directory" =>
          LET name == last'.arg[2]
              blocked == NamedDirs(node_at(tree.root, last'.arg[1]), name, disk) # {}
          IN  IF HasReserved(name)
              THEN /\ tree' = tree
                   /\ last'.r = Err(IF blocked THEN <<"AlreadyExists">> ELSE <<"InvalidName">>)
              ELSE /\ last'.r # Err(<<"InvalidName">>)
                   /\ ~blocked => IsOk(last'.r)]_vars

\* C13 witness: make_directory("a:") has failed with InvalidName on a node that
\* has a child and kept it as it was.
C13_Witness ==
    /\ last.op = "TreeItem::make_directory" /\ last.arg = <<<<>>, <<"a", ":">>>>
    /\ last.r = Err(<<"InvalidName">>)
    /\ tree.root.children = <<new(<<"a">>)>>

\* ---------------------------------------------------------------------
\*   touch: new files in the private storage directory
\* ---------------------------------------------------------------------

\* The candidate path the touch command hands to create_new_file.
Candidate == path_join(VirtualFiles, NewTxt)

\* The paths the search of create_new_file tries, in its order: the candidate,
\* then new-0.txt, new-1.txt, .. next to it.
Backing(k) ==
    IF k = 0 THEN Candidate
    ELSE path_join(VirtualFiles,
                   <<"n", "e", "w", "-">> \o to_digits(k - 1) \o <<".", "t", "x", "t">>)

\* The first of these paths that names no file of `files`.
FirstUnused(files) ==
    Backing(CHOOSE k \in 0..Cardinality(files) :
                /\ canonical(Backing(k)) \notin files
                /\ \A j \in 0..(k - 1) : canonical(Backing(j)) \in files)

\* Virtual paths of touch in a tree that starts empty.
NewFileStrs == {NewTxt, ItemTxt, DirA \o Sl \o NewTxt}

InitTouch ==
    /\ tree = TreeModel_new(JSON_NEW)
    /\ disk = {}
    /\ last = Idle
    /\ doc = None
    /\ history = NoHistory

NextTouch ==
    \/ \E path \in NewFileStrs, io_ok \in BOOLEAN : CreateNewFile(path, Candidate, io_ok)
    \/ ItemMakeDirectory(<<>>, DirA)
    \/ MoveForward(DirA)
    \/ MoveToHome
    \/ \E file \in disk : Unlink(file)
    \/ Return

SpecTouch == InitTouch /\ [][NextTouch]_vars

\* The current directory holds a node new.txt whose entity is a file of the
\* private storage directory: create_new_file("new.txt", candidate) has been
\* called here before.
CreatedHere ==
    LET cur == walk_children(tree.root, tree.path, <<>>)
    IN  /\ IsOk(cur)
        /\ \E i \in 1..Len(node_at(tree.root, cur.val).children) :
               LET c == node_at(tree.root, cur.val).children[i]
               IN  /\ c.name = NewTxt
                   /\ c.entity # None
                   /\ starts_with(c.entity[1], VirtualFiles)

AppendedAt(before, after, at) ==
    LET kids == node_at(after, at).children
    IN  /\ Len(kids) = Len(node_at(before, at).children) + 1
        /\ after = replace_at(before, at,
                       [node_at(before, at) EXCEPT !.children = Append(@, kids[Len(kids)])])

\* The child AppendedAt speaks of.
Appended(after, at) ==
    LET kids == node_at(after, at).children IN kids[Len(kids)]

\* C22: add_alias with a real_path that is not on the disk returns an error and
\* leaves the tree unchanged; with a real_path that exists, the node it inserts
\* is a childless node whose entity is real_path as given; in no case is a
\* file created, copied, modified or deleted.
C22_AliasKeepsRealPath ==
    [][last'.op = "add_alias"
       => LET real_path == last'.arg[2]
          IN  /\ disk' = disk
              /\ canonical(real_path) \notin disk
                    => (last'.r.tag = "Err" /\ tree' = tree)
              /\ (canonical(real_path) \in disk /\ tree' # tree)
                    => /\ IsOk(last'.r) /\ tree'.path = tree.path
                       /\ \E at \in Positions(tree.root) :
                              /\ AppendedAt(tree.root, tree'.root, at)
                              /\ Appended(tree'.root, at).entity = Some(real_path)
                              /\ Appended(tree'.root, at).children = <<>>]_vars

\* C22 witness: add_alias(None, "./src/main.rs") at the root of the empty
\* document has inserted main.rs with the entity "./src/main.rs".
C22_Witness ==
    /\ last.op = "add_alias" /\ last.arg = <<None, MainRs>> /\ IsOk(last.r)
    /\ tree.root.children =
           <<TreeItem(<<"m", "a", "i", "n", ".", "r", "s">>, <<>>, None, Some(MainRs))>>
    /\ disk = {canonical(MainRs)}

\* C23: at every position, add_alias(None, real_path) with a real_path that
\* exists appends one child named after the base name of the real file to the
\* current directory, and add_alias(Some(p), real_path) appends one child
\* named by the last segment of resolve_virtual_path(p) to the node the
\* remaining segments lead to from the root.
C23_AliasAppendsAtTarget ==
    [][(/\ last'.op = "add_alias"
        /\ canonical(last'.arg[2]) \in disk
        /\ LET pathvec == IF last'.arg[1] = None THEN tree.path
                          ELSE resolve_virtual_path(tree, last'.arg[1][1]).val
           IN  /\ last'.arg[1] # None => pathvec # <<>>
               /\ IsOk(IF last'.arg[1] = None THEN current_item(tree, disk)
                       ELSE walk_children(tree.root,
                                          SubSeq(pathvec, 1, Len(pathvec) - 1), <<>>)))
       => LET pathvec == IF last'.arg[1] = None THEN tree.path
                         ELSE resolve_virtual_path(tree, last'.arg[1][1]).val
              dirvec == IF last'.arg[1] = None THEN pathvec
                        ELSE SubSeq(pathvec, 1, Len(pathvec) - 1)
              filename == IF last'.arg[1] = None THEN file_name(last'.arg[2])[1]
                          ELSE pathvec[Len(pathvec)]
              at == IF last'.arg[1] = None THEN current_item(tree, disk).val
                    ELSE walk_children(tree.root, dirvec, <<>>).val
          IN  /\ IsOk(last'.r)
              /\ AppendedAt(tree.root, tree'.root, at)
              /\ Appended(tree'.root, at).name = filename]_vars

\* ---------------------------------------------------------------------
\*   cat and open on nodes that are, were or never were files
\* ---------------------------------------------------------------------

OpenFile(path, that_ok) ==
    Query("open_file", <<path, that_ok>>, open_file(tree, path, disk, that_ok))

\* Path strings of cat and open in JSON_1: the file NAME, the directory NAME
\* and the file below it.
FileStrs == {NAME, nth_of(NAME, 1), ItemTxt, nth_of(NAME, 1) \o Sl \o ItemTxt}

NextOpen ==
    \/ \E path \in FileStrs : ReadFile(path)
    \/ \E path \in FileStrs, that_ok \in BOOLEAN : OpenFile(path, that_ok)
    \/ \E at \in Positions(tree.root) : ItemAddNewChild(at, ItemTxt, MainRs)
    \/ \E at \in Positions(tree.root) : ItemRemoveChild(at, ItemTxt)
    \/ MoveForward(NAME)
    \/ MoveToHome
    \/ \E file \in disk : Unlink(file)
    \/ Return

SpecOpen == InitItem /\ [][NextOpen]_vars

\* The path string of the last read_file or open_file.
AskedPath == IF last.op = "open_file" THEN last.arg[1] ELSE last.arg

\* The last call has handed a file to the operating system: read its
\* contents, or passed it to the default application.
Accessed == last.r.val # <<>> /\ last.r.val[1] \in {"contents", "opened", "OpenError"}

\* C28 as stated: read_file(p) and open_file(p) return an error, without
\* reading or opening anything, when the node at p is a directory node or a
\* node whose backing file does not exist, that is, when is_file() is false.
C28_ReadAndOpenRequireFile ==
    (/\ last.op \in {"read_file", "open_file"}
     /\ IsOk(get_item(tree, AskedPath))
     /\ ~is_file(node_at(tree.root, get_item(tree, AskedPath).val), disk))
    => (last.r.tag = "Err" /\ ~Accessed)

\* C28 amended: read_file(p) returns an error without reading anything unless
\* the node found at p satisfies is_file(); open_file(p) returns an error
\* without opening anything exactly when no node is found at p or the node has
\* no entity, and otherwise hands the absolute path of the entity to the
\* default application, whether or not is_file() holds of the node.
C28_ReadRequiresFileOpenEntity ==
    LET found == get_item(tree, AskedPath)
        item == node_at(tree.root, found.val)
    IN  /\ last.op = "read_file"
            => /\ ~(IsOk(found) /\ is_file(item, disk)) => (last.r.tag = "Err" /\ ~Accessed)
               /\ IsOk(last.r)
                     => last.r = Ok(<<"contents", canonical(resolve_path(item.entity[1]).val)>>)
        /\ last.op = "open_file"
            => IF IsOk(found) /\ item.entity # None
               THEN /\ Accessed
                    /\ last.r.val[2] = canonical(resolve_path(item.entity[1]).val)
                    /\ IsOk(last.r) = last.arg[2]
               ELSE last.r.tag = "Err" /\ ~Accessed

\* C28 witness: open_file has passed the entity of a node to the default
\* application although its backing file is gone and is_file() is false.
C28_Witness ==
    /\ last.op = "open_file" /\ IsOk(last.r) /\ Accessed
    /\ IsOk(get_item(tree, AskedPath))
    /\ ~is_file(node_at(tree.root, get_item(tree, AskedPath).val), disk)
    /\ disk = {}

\* ---------------------------------------------------------------------
\*   mkdir with a parent part that names no directory
\* ---------------------------------------------------------------------

\* Path strings of mkdir whose parent part may name no directory.
DeepMkdirStrs ==
    {DirB \o Sl \o DirA, DirA \o Sl \o DirB, <<"~", "/">> \o DirB \o Sl \o DirC}

NextMkdir ==
    \/ \E path \in DeepMkdirStrs : MakeDirectory(path)
    \/ \E name \in {DirA, DirB} : MoveForward(name)
    \/ \E level \in 1..MaxLevel : MoveBackward(level)
    \/ \E path \in DeepMkdirStrs : RemoveChild(path)
    \/ \E path \in {None, Some(DirA)} : LsSimple(path)
    \/ Return

SpecMkdir == InitNames /\ [][NextMkdir]_vars

\* C30: make_directory(path_str) whose parent part (all but the final segment)
\* does not resolve to a directory falls back to the current node: the
\* trailing segment is created as a child of the current directory and the
\* call does not return NotFound.
C30_MakeDirectoryFallsBack ==
    [][(/\ last'.op = "make_directory"
        /\ LET pathvec == resolve_virtual_path(tree, last'.arg).val
               cur == current_item(tree, disk)
           IN  /\ pathvec # <<>>
               /\ ~IsOk(walk_dirs(tree.root, SubSeq(pathvec, 1, Len(pathvec) - 1), <<>>, disk))
               /\ IsOk(cur)
               /\ is_valid_item_name(pathvec[Len(pathvec)])
               /\ ~has_dir(node_at(tree.root, cur.val), pathvec[Len(pathvec)], disk))
       => LET pathvec == resolve_virtual_path(tree, last'.arg).val
              cur == current_item(tree, disk).val
          IN  /\ IsOk(last'.r)
              /\ AppendedAt(tree.root, tree'.root, cur)
              /\ Appended(tree'.root, cur) = new(pathvec[Len(pathvec)])]_vars

\* ---------------------------------------------------------------------
\*   call: external commands on virtual names
\* ---------------------------------------------------------------------

CallCommand(inputs, cmd_ok) ==
    Query("call_command", <<inputs, cmd_ok>>, call_command(tree, inputs, cmd_ok))

\* Arguments of call: options, virtual names of files and directories, real
\* paths.
ArgStrs ==
    {<<"-", "l">>, ItemTxt, DirA \o Sl \o ItemTxt, DirB, NAME,
     <<".", "/", "x">>, <<"/", "x">>}

\* The longest argument vector of the runs.
MaxArgs == 2

ArgVecs == UNION {[1..n -> ArgStrs] : n \in 0..MaxArgs}

NextCall ==
    \/ \E inputs \in ArgVecs, cmd_ok \in BOOLEAN : CallCommand(inputs, cmd_ok)
    \/ \E name \in Names : MoveForward(name)
    \/ MoveToHome
    \/ Return

SpecCall == Init /\ [][NextCall]_vars

\* The node the virtual path `arg` names, walked from the root.
NodeOf(arg) == walk_children(tree.root, resolve_virtual_path(tree, arg).val, <<>>)

\* C29: call_command passes one output argument per input argument in the same
\* order; an argument that resolves as a virtual path to a node with an entity
\* is replaced by the absolute real path of that entity, the absolute
\* resolution applied once, and an argument that neither resolves to such a
\* node nor starts with `.` or `/` is passed through unchanged.
C29_CallSubstitutesEntityPaths ==
    last.op = "call_command"
    => LET inputs == last.arg[1]
           output == Tail(last.r.val[2])
       IN  /\ Len(output) = Len(inputs)
           /\ \A i \in 1..Len(inputs) :
                  LET found == NodeOf(inputs[i])
                      names_entity ==
                          /\ IsOk(found)
                          /\ node_at(tree.root, found.val).entity # None
                  IN  /\ names_entity
                         => output[i] =
                                resolve_path(node_at(tree.root, found.val).entity[1]).val
                      /\ (/\ ~names_entity
                          /\ ~starts_with(inputs[i], <<".">>)
                          /\ ~starts_with(inputs[i], <<"/">>))
                         => output[i] = inputs[i]

\* ---------------------------------------------------------------------
\*   the persisted document: to_file and from_file
\* ---------------------------------------------------------------------

\* get_json_path("test"): <current directory>/.vtree/trees/test.json
JsonPath ==
    path_join(CurDir, <<".", "v", "t", "r", "e", "e", "/", "t", "r", "e", "e", "s", "/",
                        "t", "e", "s", "t", ".", "j", "s", "o", "n">>)

\* The file of the document.
DocFile == canonical(JsonPath)

\* TreeModel::to_file(path): File::create and write_all of the whole text.
ToFile ==
    /\ last.op = Idle.op
    /\ Cardinality(disk \cup {DocFile}) <= MaxFiles
    /\ doc' = Some(to_json(tree.root))
    /\ disk' = disk \cup {DocFile}
    /\ last' = [op |-> "to_file", arg |-> JsonPath, r |-> Ok(Unit), from |-> tree.path]
    /\ UNCHANGED <<tree, history>>

\* TreeModel::from_file(path): a new model at the root of what the document
\* holds; without the file, or with a text that is no TreeItem, an error.
from_file(text) ==
    IF text = None THEN Err(<<"Io">>)
    ELSE LET item == from_json(text[1])
         IN  IF IsOk(item) THEN Ok(<<TreeModel_new(item.val[1])>>) ELSE item

FromFile ==
    /\ last.op = Idle.op
    /\ last' = [op |-> "from_file", arg |-> JsonPath,
                r |-> IF IsOk(from_file(doc)) THEN Ok(Unit) ELSE from_file(doc),
                from |-> tree.path]
    /\ tree' = IF IsOk(from_file(doc)) THEN from_file(doc).val[1] ELSE tree
    /\ UNCHANGED <<disk, doc, history>>

\* A name add_new_child takes and make_directory refuses: a"\
Quoted == <<"a", "\"", "\\">>

NextFile ==
    \/ ToFile
    \/ FromFile
    \/ \E at \in Positions(tree.root) : ItemAddNewChild(at, Quoted, MainRs)
    \/ \E name \in {Quoted, DirB} : ItemRemoveChild(<<>>, name)
    \/ MoveForward(DirA)
    \/ Return

\* The documents of the tests.
InitFile ==
    /\ tree \in {TreeModel_new(JSON_0), TreeModel_new(JSON_1)}
    /\ disk = {canonical(MainRs)}
    /\ last = Idle
    /\ doc = None
    /\ history = NoHistory

SpecFile == InitFile /\ [][NextFile]_vars

\* C25: serializing a tree with to_file and loading the result with from_file
\* reproduces the node graph: the same name, desc, entity and children, in
\* their order, at every node. The loaded model stands at its root.
C25_RoundTrip ==
    [][(last'.op = "from_file" /\ doc = Some(to_json(tree.root)))
       => (IsOk(last'.r) /\ tree'.root = tree.root /\ tree'.path = <<>>)]_vars

\* C25 witness: a tree of JSON_0 with a description, an entity and a child
\* named a"\ has been written and loaded again.
C25_Witness ==
    /\ last.op = "from_file" /\ IsOk(last.r)
    /\ doc = Some(to_json(tree.root))
    /\ \E i \in 1..Len(tree.root.children) : tree.root.children[i].name = Quoted
    /\ \E i \in 1..Len(tree.root.children) :
           /\ tree.root.children[i].children # <<>>
           /\ tree.root.children[i].children[1].desc = Some(TestItem)
           /\ tree.root.children[i].children[1].entity = Some(MainRs)

\* ---------------------------------------------------------------------
\*   the session: the command loop of vtui::session::enter
\*
\*   A command has been parsed when its handler starts; the result of a
\*   handler is Ok, Err (the error is printed and the loop goes on), Panic,
\*   or Fatal when `?` makes enter return the error of the filesystem.
\* ---------------------------------------------------------------------

Fatal(kind) == [tag |-> "Fatal", val |-> kind]

\* Path::components: a leading "/" and a leading "." are components, other
\* "." and empty components are dropped, ".." stays.
path_components(p) ==
    LET parts == split(p, "/")
    IN  (IF starts_with(p, <<"/">>) THEN <<Sl>>
         ELSE IF parts # <<>> /\ Head(parts) = <<".">> THEN <<<<".">>>>
         ELSE <<>>) \o filter_out(parts, {<<>>, <<".">>})

\* Path::starts_with: whole components, compared as they are written.
path_starts_with(p, base) ==
    LET a == path_components(p)
        b == path_components(base)
    IN  Len(b) <= Len(a) /\ SubSeq(a, 1, Len(b)) = b

\* format!("{}", item): fmt counts `0..nch-1` on the children of the item it
\* is called on, which overflows or runs into unwrap() on None when there are
\* none. The text itself is not modelled.
display(item) ==
    IF item.children = <<>> THEN Panic(<<"unwrap on None">>) ELSE Ok(Unit)

\* VCommand::Cd
session_cd(self, name, files) ==
    IF name = None THEN move_to_home(self, files) ELSE move_by_string(self, name[1], files)

\* VCommand::Tree
session_tree(self, name, files) ==
    LET found == IF name = None THEN current_item(self, files) ELSE get_item(self, name[1])
    IN  IF ~IsOk(found) THEN Out(found, self, files)
        ELSE Out(display(node_at(self.root, found.val)), self, files)

\* VCommand::Ls; ls_with_desc is ls_detailed.
session_ls(self, name, desc, files) ==
    Out(IF desc THEN ls_detailed(self, name, files) ELSE ls_simple(self, name, files),
        self, files)

\* VCommand::Touch; get_relative_vtree_path(true) finds the .vtree directory.
session_touch(self, name, files, io_ok) ==
    create_new_file(self, name, path_join(VirtualFiles, name), files, io_ok)

\* VCommand::Desc: the description goes into a clone of the item, which is
\* dropped at the end of the arm.
session_desc(self, name, desc, files) ==
    LET item_result == get_item(self, IF name = None THEN pwd(self) ELSE name[1])
        item == IF desc = None THEN node_at(self.root, item_result.val)
                ELSE [node_at(self.root, item_result.val) EXCEPT !.desc = desc]
    IN  IF ~IsOk(item_result) THEN Out(Panic(<<"unwrap on Err">>), self, files)
        ELSE Out(Ok(Unit), self, files)

\* VCommand::Rm
session_rm(self, name, files) ==
    LET found == get_item(self, name)
    IN  IF ~IsOk(found) THEN Out(found, self, files)
        ELSE LET item == node_at(self.root, found.val)
                 private == /\ item.entity # None
                            /\ path_starts_with(item.entity[1], VirtualFiles)
             IN  IF private /\ canonical(item.entity[1]) \notin files
                 THEN Out(Fatal(<<"Io">>), self, files)
                 ELSE remove_child(self, name,
                                   IF private THEN files \ {canonical(item.entity[1])}
                                   ELSE files)

\* The document `vtree new` writes for the name test.
NewDocument ==
    <<<<"{">>, JStr(<<"n", "a", "m", "e">>), JColon, JStr(<<"t", "e", "s", "t">>), <<",">>,
      <<" ">>, JStr(<<"c", "h", "i", "l", "d", "r", "e", "n">>), JColon, <<"[">>, <<"]">>,
      <<"}">>>>

\* The documents a session starts from: a new one, and one saved with dir-A.
SessionDocs ==
    {NewDocument, to_json(TreeItem(<<"t", "e", "s", "t">>, <<new(DirA)>>, None, None))}

\* "./.vtree/virtual-files/../trees/test.json": the document, named through
\* the private storage directory.
Escaping ==
    VirtualFiles \o <<"/", ".", ".", "/", "t", "r", "e", "e", "s", "/",
                      "t", "e", "s", "t", ".", "j", "s", "o", "n">>

TestJson == <<"t", "e", "s", "t", ".", "j", "s", "o", "n">>

\* A handler has run on the TreeModel of the session; a file that is gone
\* takes its text with it.
Command(op, arg, out) ==
    /\ last.op = Idle.op
    /\ count_items(out.self.root) <= MaxNodes
    /\ Cardinality(out.files) <= MaxFiles
    /\ last' = [op |-> op, arg |-> arg, r |-> out.r, from |-> tree.path]
    /\ tree' = out.self
    /\ disk' = out.files
    /\ doc' = IF DocFile \notin out.files THEN None
              ELSE IF DocFile \in disk THEN doc
              ELSE Some(<<>>)
    /\ UNCHANGED history

\* VCommand::from_string has refused the input.
Unparsable == Command("unparsable", <<>>, Out(Err(<<"Parse">>), tree, disk))

Empty == Command("", <<>>, Out(Ok(Unit), tree, disk))

Cd(name) == Command("cd", <<name>>, session_cd(tree, name, disk))

Tree(name) == Command("tree", <<name>>, session_tree(tree, name, disk))

Ls(name, desc) == Command("ls", <<name, desc>>, session_ls(tree, name, desc, disk))

Pwd == Command("pwd", <<>>, Out(Ok(pwd(tree)), tree, disk))

Cat(name) == Command("cat", <<name>>, Out(read_file(tree, name, disk), tree, disk))

Touch(name, io_ok) ==
    Command("touch", <<name, io_ok>>, session_touch(tree, name, disk, io_ok))

Open(name, that_ok) ==
    Command("open", <<name, that_ok>>, Out(open_file(tree, name, disk, that_ok), tree, disk))

Cp(src, dst) == Command("cp", <<src, dst>>, add_alias(tree, dst, src, disk))

Desc(name, desc) ==
    Command("desc", <<name, desc>>, session_desc(tree, name, desc, disk))

CallArgs(vec, cmd_ok) ==
    Command("call", <<vec, cmd_ok>>, Out(call_command(tree, vec, cmd_ok), tree, disk))

Mkdir(name) == Command("mkdir", <<name>>, make_directory(tree, name, disk))

Rm(name) == Command("rm", <<name>>, session_rm(tree, name, disk))

\* VCommand::Exit: to_file unless the session is discarded, then the loop
\* ends.
Exit(discard) ==
    /\ last.op = Idle.op
    /\ last' = [op |-> "exit", arg |-> <<discard>>, r |-> Ok(Unit), from |-> tree.path]
    /\ IF discard THEN UNCHANGED <<doc, disk>>
       ELSE doc' = Some(to_json(tree.root)) /\ disk' = disk \cup {DocFile}
    /\ UNCHANGED <<tree, history>>

\* The loop reads the next command: not after exit, a panic or a return
\* from enter.
ReadNext ==
    /\ last.op \notin {Idle.op, "exit"}
    /\ last.r.tag \in {"Ok", "Err"}
    /\ last' = Idle
    /\ UNCHANGED <<tree, disk, doc, history>>

\* enter: the document exists and holds a TreeItem.
InitSession ==
    /\ doc \in {Some(text) : text \in SessionDocs}
    /\ history = NoHistory
    /\ tree = from_file(doc).val[1]
    /\ disk = {DocFile}
    /\ last = Idle

NextSession ==
    \/ Unparsable
    \/ Empty
    \/ \E name \in {None, Some(DirA)} : Cd(name)
    \/ \E name \in {None, Some(DirA)} : Tree(name)
    \/ \E name \in {None, Some(DirA)}, desc \in BOOLEAN : Ls(name, desc)
    \/ Pwd
    \/ Cat(NewTxt)
    \/ \E io_ok \in BOOLEAN : Touch(NewTxt, io_ok)
    \/ \E that_ok \in BOOLEAN : Open(NewTxt, that_ok)
    \/ \E src \in {Escaping, Candidate}, dst \in {None, Some(DirA \o Sl \o NewTxt)} :
           Cp(src, dst)
    \/ \E name \in {None, Some(NewTxt)}, desc \in {None, Some(TestItem)} : Desc(name, desc)
    \/ \E cmd_ok \in BOOLEAN : CallArgs(<<NewTxt>>, cmd_ok)
    \/ Mkdir(DirA \o Sl \o DirB)
    \/ \E name \in {NewTxt, TestJson, DirA \o Sl \o NewTxt,
                    DirA \o Sl \o NewTxt \o <<"#", "0">>} : Rm(name)
    \/ \E discard \in BOOLEAN : Exit(discard)
    \/ \E file \in disk \ {DocFile} : Unlink(file)
    \/ ReadNext

SpecSession == InitSession /\ [][NextSession]_vars

\* The file lies in the private storage directory .vtree/virtual-files.
InPrivateStorage(file) ==
    LET dir == canonical(VirtualFiles)
    IN  Len(file) > Len(dir) /\ SubSeq(file, 1, Len(dir)) = dir

\* C24: during a session the persisted document changes only at an exit
\* without discard, which overwrites it with the whole current node graph;
\* every other command and exit --discard leave the document unchanged.
C24_DocumentChangesOnlyAtExit ==
    [][/\ doc' # doc => (last'.op = "exit" /\ last'.arg = <<FALSE>>)
       /\ (last'.op = "exit" /\ last.op = Idle.op)
             => doc' = IF last'.arg = <<TRUE>> THEN doc ELSE Some(to_json(tree.root))]_vars

\* C27: rm deletes a backing file only if the entity of the node lies under
\* the private storage directory; removing a node that aliases a file outside
\* it never deletes that file.
C27_RmDeletesOnlyPrivateFiles ==
    [][last'.op = "rm" => \A file \in disk \ disk' : InPrivateStorage(file)]_vars

\* C26: in the session loop a failing command (input that does not parse, an
\* error of the tree, an error of the filesystem while handling touch or rm)
\* is reported and the loop goes on to read the next command; the session
\* ends only through exit.
C26_SessionEndsOnlyThroughExit ==
    [][/\ (\/ last'.op = "unparsable"
           \/ last'.op = "touch" /\ ~last'.arg[2]
           \/ /\ last'.op = "rm"
              /\ IsOk(get_item(tree, last'.arg[1]))
              /\ LET item == node_at(tree.root, get_item(tree, last'.arg[1]).val)
                 IN  /\ item.entity # None
                     /\ InPrivateStorage(canonical(item.entity[1]))
                     /\ canonical(item.entity[1]) \notin disk)
             => last'.r.tag = "Err"
       /\ (last.op = Idle.op /\ last'.op # "exit") => last'.r.tag \in {"Ok", "Err"}]_vars

\* ---------------------------------------------------------------------
\*   name collisions, the two walkers, frames
\* ---------------------------------------------------------------------

\* C31: create_new_file and add_alias check for a name collision before they
\* insert: neither ever appends a child whose name is the name of a sibling
\* that is already in the target parent.
C31_InsertsCheckCollision ==
    [][(last'.op \in {"add_alias", "create_new_file"} /\ IsOk(last'.r))
       => \A at \in Positions(tree.root) :
              AppendedAt(tree.root, tree'.root, at)
                 => \A i \in 1..Len(node_at(tree.root, at).children) :
                        node_at(tree.root, at).children[i].name
                            # Appended(tree'.root, at).name]_vars

\* ---------------------------------------------------------------------
\*   cd along path strings in trees that grow
\* ---------------------------------------------------------------------

Tilde == <<"~">>

\* Path strings of cd: names and "..", with and without empty segments, and
\* two with "~".
WalkStrs ==
    {DirA, DirB, <<".", ".">>, DirA \o Sl \o DirB, DirA \o Sl \o DirA,
     DirA \o <<"/", ".", ".", "/">> \o DirB, DirA \o Sl \o DirA \o <<"/", ".", ".">>,
     <<".", ".", "/">> \o DirA, Sl \o DirA \o <<"/", "/", ".", ".">>,
     DirA \o Sl \o DirC \o Sl \o DirB, DirB \o <<"/", ".", ".", "/">> \o DirC \o Sl \o DirA,
     Tilde, Tilde \o Sl \o DirA}

InitWalk ==
    /\ tree \in {TreeModel_new(JSON_NEW), TreeModel_new(JSON_0)}
    /\ disk = {canonical(MainRs)}
    /\ last = Idle
    /\ doc = None
    /\ history = NoHistory

NextWalk ==
    \/ \E path \in WalkStrs : MoveByString(path)
    \/ \E at \in Positions(tree.root), name \in {DirA, DirB, Tilde} :
           ItemMakeDirectory(at, name)
    \/ MoveToHome
    \/ Return

SpecWalk == InitWalk /\ [][NextWalk]_vars

\* The path string is made of names and ".." only: no "~", no "\", no
\* segment ".".
Plain(path) ==
    /\ \A i \in 1..Len(path) : path[i] \notin {"~", "\\"}
    /\ \A i \in 1..Len(split(path, "/")) : split(path, "/")[i] # <<".">>

\* C32: for a path string p of child names and ".." tokens, separated by "/",
\* whenever move_by_string(p) succeeds the new current path is
\* resolve_virtual_path(p) as evaluated just before the move.
C32_WalkersAgree ==
    [][(last'.op = "move_by_string" /\ IsOk(last'.r) /\ Plain(last'.arg))
       => tree'.path = resolve_virtual_path(tree, last'.arg).val]_vars

\* C32 witness: move_by_string("dir-A/dir-A/..") has succeeded from the root,
\* through the second level of a chain of three dir-A, and stands in dir-A,
\* where resolve_virtual_path led before the move.
C32_Witness ==
    /\ last.op = "move_by_string" /\ IsOk(last.r)
    /\ last.arg = DirA \o Sl \o DirA \o <<"/", ".", ".">>
    /\ last.from = <<>>
    /\ tree.path = <<DirA>>
    /\ tree.path = resolve_virtual_path(Before, last.arg).val

\* One segment of a cd, as the loop of move_by_string takes it.
Step(self, seg, files) ==
    IF seg = <<".", ".">> THEN move_backward(self, 1, files) ELSE move_forward(self, seg, files)

\* The model after the first n of the segments, each taken on its own.
RECURSIVE After(_, _, _, _)
After(self, segs, n, files) ==
    IF n = 0 THEN self ELSE Step(After(self, segs, n - 1, files), segs[n], files).self

\* The non-empty segments of a path string.
Segments(path) == filter_out(split(path, "/"), {<<>>})

\* C33: move_by_string is not atomic: when it fails at the k-th non-empty
\* segment it returns the error of that segment and leaves the path where
\* the first k-1 segments have led, not where it was before the call; the
\* segments after the failing one are not applied.
C33_FailedWalkStopsMidway ==
    [][(last'.op = "move_by_string" /\ ~IsOk(last'.r))
       => \E k \in 1..Len(Segments(last'.arg)) :
              LET segs == Segments(last'.arg)
                  reached == After(tree, segs, k - 1, disk)
              IN  /\ \A j \in 1..(k - 1) :
                         IsOk(Step(After(tree, segs, j - 1, disk), segs[j], disk).r)
                  /\ Step(reached, segs[k], disk).r = last'.r
                  /\ tree' = [tree EXCEPT !.path = reached.path]
                  /\ disk' = disk]_vars

\* C33 witness: move_by_string("dir-A/dir-C/dir-B") from the root of JSON_0
\* has failed at dir-C, its second segment, and the path stands in dir-A.
C33_Witness ==
    /\ last.op = "move_by_string" /\ ~IsOk(last.r)
    /\ last.arg = DirA \o Sl \o DirC \o Sl \o DirB
    /\ last.from = <<>>
    /\ tree.path = <<DirA>>
    /\ tree.root = JSON_0

\* C34: navigation and mutation are separated: ls_simple, ls_detailed,
\* get_item, read_file, make_directory, remove_child, create_new_file and
\* add_alias never change the current path, whether they succeed or fail, and
\* move_forward, move_backward, move_by_string and move_to_home never change
\* the node graph.
C34_NavigationAndMutationApart ==
    [][/\ last'.op \in {"ls_simple", "ls_detailed", "get_item", "read_file",
                        "make_directory", "remove_child", "create_new_file", "add_alias"}
             => tree'.path = tree.path
       /\ last'.op \in {"move_forward", "move_backward", "move_by_string", "move_to_home"}
             => tree'.root = tree.root]_vars

\* C34 witness: make_directory("dir-C") has made dir-C in dir-A from dir-A,
\* and the path is still dir-A.
C34_Witness ==
    /\ last.op = "make_directory" /\ last.arg = DirC /\ IsOk(last.r)
    /\ last.from = <<DirA>>
    /\ tree.path = <<DirA>>
    /\ tree.root.children[1].name = DirA
    /\ tree.root.children[1].children = <<new(DirC)>>

\* ---------------------------------------------------------------------
\*   directories whose names are numbers
\* ---------------------------------------------------------------------

\* Valid names of directories: letters, letters and digits, digits only,
\* signed digits.
NumberNames ==
    {<<"a">>, <<"a", "1">>, <<"7">>, <<"2", "0", "2", "4">>, <<"-", "1">>, <<"+", "5">>}

NextNumbers ==
    \/ \E at \in Positions(tree.root), name \in NumberNames : ItemMakeDirectory(at, name)
    \/ \E at \in Positions(tree.root), name \in NumberNames : GetChild(at, name)
    \/ \E name \in NumberNames : MoveForward(name)
    \/ \E name \in NumberNames : GetItem(name)
    \/ MoveToHome
    \/ Return

SpecNumbers == InitNames /\ [][NextNumbers]_vars

\* C35: every child that make_directory creates with a valid name N, a name
\* of digits or a signed integer included, is returned by get_child(N) on its
\* parent; so every directory that move_forward(N) reaches is reached by
\* get_item(N) too.
C35_MadeDirectoryIsFound ==
    [][/\ (last'.op = "TreeItem::make_directory" /\ IsOk(last'.r))
             => LET dir == node_at(tree'.root, last'.arg[1])
                    found == get_child(dir, last'.arg[2])
                IN  /\ IsOk(found)
                    /\ dir.children[found.val].name = last'.arg[2]
       /\ (last'.op = "move_forward" /\ IsOk(last'.r))
             => IsOk(get_item(tree, last'.arg))]_vars

\* ---------------------------------------------------------------------
\*   touch: all or nothing
\* ---------------------------------------------------------------------

\* C36: create_new_file is all-or-nothing: whenever it returns an error, the
\* error for a resolved parent that is not in the tree included, no backing
\* file has been created and no node added; whenever it succeeds there is
\* exactly one new file and exactly one new node, whose entity is that file.
C36_CreateNewFileAllOrNothing ==
    [][last'.op = "create_new_file"
       => /\ ~IsOk(last'.r) => (disk' = disk /\ tree' = tree)
          /\ IsOk(last'.r)
                => \E file \in disk' \ disk, at \in Positions(tree.root) :
                       /\ disk' = disk \cup {file}
                       /\ AppendedAt(tree.root, tree'.root, at)
                       /\ Appended(tree'.root, at).entity # None
                       /\ canonical(Appended(tree'.root, at).entity[1]) = file]_vars

\* ---------------------------------------------------------------------
\*   the session: rm, discard, desc
\* ---------------------------------------------------------------------

\* C37: in the rm command, whenever a backing file is deleted the node that
\* referenced it is removed from the tree by the same command, for names with
\* a #n suffix and paths through siblings of one name too: no node is left
\* that points at a file rm has deleted.
C37_RmRemovesTheNode ==
    [][(last'.op = "rm" /\ disk' # disk)
       => LET found == get_item(tree, last'.arg[1])
              at == SubSeq(found.val, 1, Len(found.val) - 1)
              k == found.val[Len(found.val)]
          IN  /\ IsOk(found) /\ found.val # <<>>
              /\ tree'.root =
                     replace_at(tree.root, at,
                         [node_at(tree.root, at) EXCEPT !.children = remove_at(@, k)])]_vars

\* The documents of a session that is discarded: a new one, and one saved
\* with dir-A/new.txt, whose entity is a file of the private storage.
DiscardDocs ==
    {NewDocument,
     to_json(TreeItem(<<"t", "e", "s", "t">>,
                      <<TreeItem(DirA, <<new_file(NewTxt, Candidate)>>, None, None)>>,
                      None, None))}

\* The entities below `item`.
RECURSIVE Entities(_)
Entities(item) ==
    {item.children[i].entity[1] :
         i \in {j \in 1..Len(item.children) : item.children[j].entity # None}}
    \cup UNION {Entities(item.children[i]) : i \in 1..Len(item.children)}

\* enter: the document exists, and so do the files of its entities.
InitDiscard ==
    /\ doc \in {Some(text) : text \in DiscardDocs}
    /\ history = NoHistory
    /\ tree = from_file(doc).val[1]
    /\ disk = {DocFile} \cup {canonical(e) : e \in Entities(tree.root)}
    /\ last = Idle

NextDiscard ==
    \/ \E name \in {None, Some(DirA)} : Cd(name)
    \/ \E io_ok \in BOOLEAN : Touch(NewTxt, io_ok)
    \/ Mkdir(DirA \o Sl \o DirB)
    \/ \E name \in {NewTxt, DirA \o Sl \o NewTxt} : Rm(name)
    \/ \E discard \in BOOLEAN : Exit(discard)
    \/ ReadNext

SpecDiscard == InitDiscard /\ [][NextDiscard]_vars

\* C38: a session that ends with exit --discard leaves the persisted document
\* and the private backing files as consistent with each other as they were
\* at its start: every entity of the document in the private storage still
\* names a file, and no backing file that touch created is left behind.
C38_DiscardLeavesDiskConsistent ==
    (last.op = "exit" /\ last.arg = <<TRUE>>)
       => \A document \in {from_file(doc).val[1].root} :
              /\ \A e \in Entities(document) :
                     InPrivateStorage(canonical(e)) => canonical(e) \in disk
              /\ \A file \in disk :
                     InPrivateStorage(file)
                        => \E e \in Entities(document) : canonical(e) = file

\* C39: desc <path> --desc text sets the description of the node at that
\* path in the tree of the session, so that a later ls --desc shows the text
\* and an exit without discard persists it; with a path that does not resolve
\* it reports an error and changes nothing.
C39_DescSetsDescription ==
    [][(last'.op = "desc" /\ last'.arg[1] # None /\ last'.arg[2] # None)
       => LET found == get_item(tree, last'.arg[1][1])
          IN  IF IsOk(found)
              THEN /\ IsOk(last'.r)
                   /\ tree'.path = tree.path
                   /\ tree'.root =
                          replace_at(tree.root, found.val,
                              [node_at(tree.root, found.val) EXCEPT !.desc = last'.arg[2]])
              ELSE last'.r.tag = "Err" /\ tree' = tree]_vars

\* ---------------------------------------------------------------------
\*   the history of the command line
\* ---------------------------------------------------------------------

\* Largest capacity of an enumerated History.
MaxHistory == 2

\* Lines the user enters.
Lines == {<<"l", "s">>, <<"c", "d">>, <<"r", "m">>}

\* A method of History has run on the history of the App.
HistoryCall(op, arg, out) ==
    /\ last.op = Idle.op
    /\ last' = [op |-> op, arg |-> arg, r |-> out.r, from |-> tree.path]
    /\ history' = out.self
    /\ UNCHANGED <<tree, disk, doc>>

HistoryAdd(s) == HistoryCall("History::add", s, History_add(history, s))

HistoryClear == HistoryCall("History::clear", <<>>, History_clear(history))

HistoryPrev == HistoryCall("History::prev", <<>>, History_prev(history))

HistoryNext == HistoryCall("History::next", <<>>, History_next(history))

\* History::new(max) with any capacity.
InitHistory ==
    /\ tree = TreeModel_new(JSON_NEW)
    /\ disk = {}
    /\ last = Idle
    /\ doc = None
    /\ history \in {History_new(max) : max \in 0..MaxHistory}

NextHistory ==
    \/ \E s \in Lines : HistoryAdd(s)
    \/ HistoryClear
    \/ HistoryPrev
    \/ HistoryNext
    \/ Return

SpecHistory == InitHistory /\ [][NextHistory]_vars

\* C40: for a History with capacity max, after any sequence of add, prev,
\* next and clear: len <= max and index <= len; add drops the oldest entry
\* when the capacity is exceeded and sets index to len; prev and next never
\* index outside the stored entries: prev returns None at index 0, next
\* returns None when index == len, and otherwise each returns a stored
\* entry.
C40_HistoryWithinBounds ==
    [][/\ Len(history'.history) <= history'.max
       /\ history'.index <= Len(history'.history)
       /\ history'.max = history.max
       /\ last'.op = "History::add"
             => /\ history'.history =
                       IF Len(history.history) + 1 > history.max
                       THEN Tail(Append(history.history, last'.arg))
                       ELSE Append(history.history, last'.arg)
                /\ history'.index = Len(history'.history)
       /\ last'.op = "History::prev"
             => /\ last'.r.tag = "Ok"
                /\ last'.r.val = None <=> history.index = 0
                /\ last'.r.val # None
                      => \E i \in 1..Len(history.history) :
                             /\ i = history.index
                             /\ last'.r.val = Some(history.history[i])
       /\ last'.op = "History::next"
             => /\ last'.r.tag = "Ok"
                /\ last'.r.val = None <=> history.index = Len(history.history)
                /\ last'.r.val # None
                      => \E i \in 1..Len(history.history) :
                             /\ i = history.index + 1
                             /\ last'.r.val = Some(history.history[i])]_vars

\* A full history has taken one more line and has lost its oldest.
C40_Witness ==
    /\ last.op = "History::add"
    /\ last.arg = <<"r", "m">>
    /\ history = [history |-> << <<"c", "d">>, <<"r", "m">> >>, index |-> 2, max |-> 2]

====
